---- MODULE Spec2Model ----
(***************************************************************************)
(* A model of SETS (STO Equipment and Trait Selector): the build record    *)
(* and its mutation callbacks, the settings store, the background          *)
(* execution helper and the ItemButton widget.                             *)
(*                                                                         *)
(* Python indices are kept 0-based; a TLA+ sequence holding a Python list  *)
(* is read at index i + 1.                                                 *)
(***************************************************************************)
EXTENDS Integers, Sequences, FiniteSets, TLC

(***************************************************************************)
(* Python values a slot or a field of the build record can hold.           *)
(***************************************************************************)
None == [t |-> "None", name |-> "", mods |-> <<>>]

Str(s) == [t |-> "str", name |-> s, mods |-> <<>>]

Dict(n, m) == [t |-> "dict", name |-> n, mods |-> m]

\* Python's  [v] * n
Rep(n, v) == [i \in 1..n |-> v]

(***************************************************************************)
(* Bounds of the model.                                                    *)
(***************************************************************************)
\* at most this many slots hold an item at a time
MaxFilled == 2

\* the items the picker can return: an item with and without modifiers
Items == {Dict("phaser", <<>>), Dict("torpedo", <<"mk", "epic">>)}

\* the texts a text field can hold
Texts == {"", "a", "b"}

(***************************************************************************)
(* WidgetStorage.build: the fixed shape of the space build.                *)
(***************************************************************************)
widgets_build ==
    [space |->
        [active_rep_traits |-> Rep(5, None),
         aft_weapons |-> Rep(5, None),
         aft_weapons_label |-> None,
         boffs |-> <<Rep(4, None), Rep(4, None), Rep(4, None),
                     Rep(4, None), Rep(4, None), Rep(4, None)>>,
         boff_labels |-> Rep(6, None),
         boff_specs |-> Rep(6, None),
         core |-> <<Str("")>>,
         deflector |-> <<Str("")>>,
         devices |-> Rep(6, None),
         doffs |-> Rep(6, Str("")),
         eng_consoles |-> Rep(5, None),
         eng_consoles_label |-> None,
         engines |-> <<Str("")>>,
         experimental |-> <<None>>,
         experimental_label |-> None,
         fore_weapons |-> Rep(5, None),
         hangars |-> Rep(2, None),
         hangars_label |-> None,
         rep_traits |-> Rep(5, None),
         sci_consoles |-> Rep(5, None),
         sci_consoles_label |-> None,
         sec_def |-> <<None>>,
         sec_def_label |-> None,
         shield |-> <<Str("")>>,
         ship |-> Str(""),
         ship_desc |-> Str(""),
         ship_name |-> Str(""),
         starship_traits |-> Rep(7, None),
         tac_consoles |-> Rep(5, None),
         tac_consoles_label |-> None,
         tier |-> Str(""),
         traits |-> Rep(12, None),
         uni_consoles |-> Rep(3, None),
         uni_consoles_label |-> None]]

(***************************************************************************)
(* The layout: the create_build_section calls of the two build frames,     *)
(* key |-> <<button count, is_equipment>>, and the boff stations.          *)
(***************************************************************************)
\* the layout with a sixth fore weapon button
space_build_sections_six_fore ==
    [fore_weapons |-> <<6, TRUE>>,
     aft_weapons |-> <<5, TRUE>>,
     experimental |-> <<1, TRUE>>,
     devices |-> <<6, TRUE>>,
     hangars |-> <<2, TRUE>>,
     deflector |-> <<1, TRUE>>,
     sec_def |-> <<1, TRUE>>,
     engines |-> <<1, TRUE>>,
     core |-> <<1, TRUE>>,
     shield |-> <<1, TRUE>>,
     uni_consoles |-> <<3, TRUE>>,
     eng_consoles |-> <<5, TRUE>>,
     sci_consoles |-> <<5, TRUE>>,
     tac_consoles |-> <<5, TRUE>>,
     rep_traits |-> <<5, FALSE>>,
     active_rep_traits |-> <<5, FALSE>>]

space_build_sections ==
    [fore_weapons |-> <<5, TRUE>>,
     aft_weapons |-> <<5, TRUE>>,
     experimental |-> <<1, TRUE>>,
     devices |-> <<6, TRUE>>,
     hangars |-> <<2, TRUE>>,
     deflector |-> <<1, TRUE>>,
     sec_def |-> <<1, TRUE>>,
     engines |-> <<1, TRUE>>,
     core |-> <<1, TRUE>>,
     shield |-> <<1, TRUE>>,
     uni_consoles |-> <<3, TRUE>>,
     eng_consoles |-> <<5, TRUE>>,
     sci_consoles |-> <<5, TRUE>>,
     tac_consoles |-> <<5, TRUE>>,
     rep_traits |-> <<5, FALSE>>,
     active_rep_traits |-> <<5, FALSE>>]

ground_build_sections ==
    [kit_modules |-> <<6, TRUE>>,
     weapons |-> <<2, TRUE>>,
     ground_devices |-> <<5, TRUE>>,
     kit |-> <<1, TRUE>>,
     armor |-> <<1, TRUE>>,
     ev_suit |-> <<1, TRUE>>,
     personal_shield |-> <<1, TRUE>>,
     rep_traits |-> <<5, FALSE>>,
     active_rep_traits |-> <<5, FALSE>>]

build_sections(env) ==
    IF env = "space" THEN space_build_sections ELSE ground_build_sections

\* the boff_id arguments of create_boff_station_space / _ground
space_boff_ids == {0, 1, 2, 3, 4, 5}

ground_boff_ids == {0, 1, 2, 3}

boff_ids(env) == IF env = "space" THEN space_boff_ids ELSE ground_boff_ids

\* a boff station is a fixed row of four abilities
BoffRanks == 4

\* the sections built without an explicit count (personal traits, starship
\* traits, duty officers): one button per entry of the stored shape
SpaceSectionKeys == {"traits", "starship_traits", "doffs"}

GroundDoffs == 6

(***************************************************************************)
(* empty_build: the build record with every slot at its absent value.      *)
(***************************************************************************)
SpaceArrayKeys == DOMAIN space_build_sections \cup SpaceSectionKeys \cup {"boff_specs"}

SpaceFieldKeys == {"ship", "ship_desc", "ship_name", "tier"}

SpaceKeys == SpaceArrayKeys \cup SpaceFieldKeys \cup {"boffs"}

GroundArrayKeys == DOMAIN ground_build_sections \cup {"doffs"}

GroundKeys == GroundArrayKeys \cup {"boffs"}

ArrayKeys(env) == IF env = "space" THEN SpaceArrayKeys ELSE GroundArrayKeys

Envs == {"space", "ground"}

empty_captain ==
    [name |-> Str(""), career |-> Str(""), faction |-> Str(""),
     species |-> Str(""), primary_spec |-> Str(""), secondary_spec |-> Str(""),
     elite |-> Str("")]

empty_space == [k \in SpaceKeys |-> widgets_build.space[k]]

empty_ground ==
    [k \in GroundKeys |->
        IF k = "boffs" THEN [i \in 1..Cardinality(ground_boff_ids) |-> Rep(BoffRanks, None)]
        ELSE IF k = "doffs" THEN Rep(GroundDoffs, Str(""))
        ELSE Rep(ground_build_sections[k][1], None)]

empty_build == [captain |-> empty_captain, space |-> empty_space, ground |-> empty_ground]

(***************************************************************************)
(* Slots: a slot widget addresses build[env][key][idx], and a boff         *)
(* ability button build[env]['boffs'][idx][sub]; sub = -1 elsewhere.       *)
(***************************************************************************)
Slot(env, key, idx, sub) == [env |-> env, key |-> key, idx |-> idx, sub |-> sub]

SectionSlots(env) ==
    UNION {{Slot(env, key, idx, -1) : idx \in 0..(build_sections(env)[key][1] - 1)} :
              key \in DOMAIN build_sections(env)}

TraitDoffSlots(env) ==
    IF env = "space"
    THEN UNION {{Slot(env, key, idx, -1) : idx \in 0..(Len(widgets_build.space[key]) - 1)} :
                   key \in SpaceSectionKeys}
    ELSE {Slot(env, "doffs", idx, -1) : idx \in 0..(GroundDoffs - 1)}

BoffSlots(env) ==
    {Slot(env, "boffs", id, rank) : id \in boff_ids(env), rank \in 0..(BoffRanks - 1)}

\* every slot button the two build frames create
SlotWidgets == UNION {SectionSlots(env) \cup TraitDoffSlots(env) \cup BoffSlots(env) : env \in Envs}

\* the slots of the sections built with is_equipment = True
EquipmentSlots == {s \in UNION {SectionSlots(env) : env \in Envs} : build_sections(s.env)[s.key][2]}

InRange(b, s) ==
    /\ s.idx < Len(b[s.env][s.key])
    /\ s.sub = -1 \/ s.sub < Len(b[s.env][s.key][s.idx + 1])

SlotGet(b, s) ==
    IF s.sub = -1 THEN b[s.env][s.key][s.idx + 1]
    ELSE b[s.env][s.key][s.idx + 1][s.sub + 1]

SlotPut(b, s, v) ==
    IF s.sub = -1 THEN [b EXCEPT ![s.env][s.key][s.idx + 1] = v]
    ELSE [b EXCEPT ![s.env][s.key][s.idx + 1][s.sub + 1] = v]

\* the absent value of a slot: what empty_build holds there
Sentinel(s) == SlotGet(empty_build, s)

\* the last button of a section built by create_build_section
LastSlot(env, key) == Slot(env, key, build_sections(env)[key][1] - 1, -1)

\* the slot buttons the user works on: the first and the last fore weapon,
\* a slot whose absent value is '', a boff ability, a trait, a duty officer,
\* and ground slots
EditSlots ==
    {Slot("space", "fore_weapons", 0, -1), LastSlot("space", "fore_weapons"),
     LastSlot("space", "core"), LastSlot("space", "rep_traits"),
     Slot("space", "boffs", 5, 3), Slot("space", "traits", 11, -1),
     Slot("space", "doffs", 5, -1),
     LastSlot("ground", "kit_modules"), Slot("ground", "boffs", 3, 3)}

Filled(b) == {s \in EditSlots : InRange(b, s) /\ SlotGet(b, s).t = "dict"}

(***************************************************************************)
(* store_json / load_json: the JSON text of a value and its parse.         *)
(***************************************************************************)
json_dumps(v) ==
    CASE v.t = "None" -> [j |-> "null", s |-> "", a |-> <<>>]
      [] v.t = "str" -> [j |-> "string", s |-> v.name, a |-> <<>>]
      [] v.t = "dict" -> [j |-> "object", s |-> v.name, a |-> v.mods]

json_loads(x) ==
    CASE x.j = "null" -> None
      [] x.j = "string" -> Str(x.s)
      [] x.j = "object" -> Dict(x.s, x.a)

DumpList(l) == [i \in 1..Len(l) |-> json_dumps(l[i])]

LoadList(l) == [i \in 1..Len(l) |-> json_loads(l[i])]

DumpEnv(r, arrays) ==
    [k \in DOMAIN r |->
        IF k = "boffs" THEN [i \in 1..Len(r[k]) |-> DumpList(r[k][i])]
        ELSE IF k \in arrays THEN DumpList(r[k])
        ELSE json_dumps(r[k])]

LoadEnv(r, arrays) ==
    [k \in DOMAIN r |->
        IF k = "boffs" THEN [i \in 1..Len(r[k]) |-> LoadList(r[k][i])]
        ELSE IF k \in arrays THEN LoadList(r[k])
        ELSE json_loads(r[k])]

store_json(b) ==
    [captain |-> [k \in DOMAIN b.captain |-> json_dumps(b.captain[k])],
     space |-> DumpEnv(b.space, SpaceArrayKeys),
     ground |-> DumpEnv(b.ground, GroundArrayKeys)]

load_json(f) ==
    [captain |-> [k \in DOMAIN f.captain |-> json_loads(f.captain[k])],
     space |-> LoadEnv(f.space, SpaceArrayKeys),
     ground |-> LoadEnv(f.ground, GroundArrayKeys)]

(***************************************************************************)
(* The menu row and the context menu: which callback each entry is wired   *)
(* to.                                                                     *)
(***************************************************************************)
\* the menu row with Open wired to clear_all
left_button_group_open_clears ==
    [l \in {"Save", "Open", "Clear", "Clear all"} |->
        CASE l = "Save" -> "save_build_callback"
          [] l = "Open" -> "clear_all"
          [] l = "Clear" -> "clear_build_callback"
          [] l = "Clear all" -> "clear_all"]

left_button_group ==
    [l \in {"Save", "Open", "Clear", "Clear all"} |->
        CASE l = "Save" -> "save_build_callback"
          [] l = "Open" -> "load_build_callback"
          [] l = "Clear" -> "clear_build_callback"
          [] l = "Clear all" -> "clear_all"]

\* the context menu with Paste Item wired to clear_slot
context_menu_actions_paste_clears ==
    [l \in {"Copy Item", "Paste Item", "Clear Slot", "Open Wiki", "Edit Slot"} |->
        CASE l = "Copy Item" -> "copy_equipment_item"
          [] l = "Paste Item" -> "clear_slot"
          [] l = "Clear Slot" -> "clear_slot"
          [] l = "Open Wiki" -> "open_wiki_context"
          [] l = "Edit Slot" -> "edit_equipment_item"]

context_menu_actions ==
    [l \in {"Copy Item", "Paste Item", "Clear Slot", "Open Wiki", "Edit Slot"} |->
        CASE l = "Copy Item" -> "copy_equipment_item"
          [] l = "Paste Item" -> "paste_equipment_item"
          [] l = "Clear Slot" -> "clear_slot"
          [] l = "Open Wiki" -> "open_wiki_context"
          [] l = "Edit Slot" -> "edit_equipment_item"]

(***************************************************************************)
(* The settings store.  A store maps each key to <<>> (no entry) or to     *)
(* <<the value stored>>.                                                   *)
(***************************************************************************)
Float(s) == [t |-> "float", name |-> s, mods |-> <<>>]

QByteArray(s) == [t |-> "QByteArray", name |-> s, mods |-> <<>>]

\* config['default_settings']
default_settings == [ui_scale |-> Float("1.0"), geometry |-> None]

SettingKeys == {"ui_scale", "geometry"}

\* no settings file
no_settings == [k \in SettingKeys |-> <<>>]

\* QSettings.value(key, None)
settings_value(store, key) == IF store[key] = <<>> THEN None ELSE store[key][1]

\* QSettings.setValue(key, v)
setValue(store, key, v) == [store EXCEPT ![key] = <<v>>]

\* the text the INI file holds for a float, and the float a text is read as
ini_number == [x \in {"1.0", "1.25", "1.5"} |-> IF x = "1.0" THEN "1" ELSE x]

\* a value as the INI file holds it and a later run reads it: a float comes
\* back as its text, a byte array and the invalid value as themselves
ini_write(v) == IF v.t = "float" THEN Str(ini_number[v.name]) ELSE v

\* QSettings.sync: the store written to the file
sync(store) ==
    [k \in DOMAIN store |->
        IF store[k] = <<>> THEN <<>> ELSE <<ini_write(store[k][1])>>]

\* QSettings.value(key, type=float)
value_float(store, key) ==
    LET v == settings_value(store, key) IN
    CASE v.t = "float" -> v
      [] v.t = "str" /\ \E x \in DOMAIN ini_number : ini_number[x] = v.name ->
            Float(CHOOSE x \in DOMAIN ini_number : ini_number[x] = v.name)
      [] OTHER -> Float("0.0")

\* init_settings with every default written over the stored value
init_settings_reset(store) ==
    [k \in DOMAIN store |->
        IF k \in DOMAIN default_settings
        THEN <<default_settings[k]>> ELSE store[k]]

\* init_settings on the store loaded from the file: each default whose key
\* reads as None is written
init_settings(store) ==
    [k \in DOMAIN store |->
        IF k \in DOMAIN default_settings /\ settings_value(store, k) = None
        THEN <<default_settings[k]>> ELSE store[k]]

\* the window geometries saveGeometry() can return
Geometries == {"g1", "g2"}

(***************************************************************************)
(* The diagnostics utility snapshot.py: the host it runs on and what its   *)
(* statements compute.                                                     *)
(***************************************************************************)
\* a Python int, by its text
PyInt(s) == [t |-> "int", name |-> s, mods |-> <<>>]

\* the build number compared with in  build >= 22000
Win11Build == 22000

\* sys.getwindowsversion().build: <<>> where the call raises
HostBuilds == {<<>>, <<Win11Build - 1>>, <<Win11Build>>, <<Win11Build + 1>>}

\* the hosts: platform.system(), platform.release() (a str), the build
\* number, and how each probe ends on the host
Hosts ==
    [system : {"Windows", "Linux"},
     release : {"10", "11"},
     build : HostBuilds,
     tkinter : {"ok", "no display", "no module"},
     os_release : {"ok", "no file", "no VERSION"},
     PIL : {"ok", "no module"},
     numpy : {"ok", "no module"}]

\* a host on which every probe succeeds
some_host ==
    [system |-> "Windows", release |-> "10", build |-> <<Win11Build>>,
     tkinter |-> "ok", os_release |-> "ok", PIL |-> "ok", numpy |-> "ok"]

\* the try statements without the one around the numpy probe
try_blocks_without_numpy == {"build", "tkinter", "distribution", "PIL"}

\* the probes that stand in a try statement with a bare except clause
try_blocks == {"build", "tkinter", "distribution", "PIL", "numpy"}

\* the except clauses with the screen geometry set to ''
except_values_empty_geometry(probe) ==
    CASE probe = "build" -> [build |-> <<>>]
      [] probe = "tkinter" ->
            [tkinter_version |-> "fail", tk_screen_geometry |-> "",
             dpi |-> "", factor |-> ""]
      [] probe = "distribution" -> [distribution |-> ""]
      [] probe = "PIL" -> [PIL_version |-> "fail"]
      [] probe = "numpy" -> [numpy_version |-> "fail"]

\* what the except clause of each probe assigns
except_values(probe) ==
    CASE probe = "build" -> [build |-> <<>>]
      [] probe = "tkinter" ->
            [tkinter_version |-> "fail", tk_screen_geometry |-> "fail",
             dpi |-> "", factor |-> ""]
      [] probe = "distribution" -> [distribution |-> ""]
      [] probe = "PIL" -> [PIL_version |-> "fail"]
      [] probe = "numpy" -> [numpy_version |-> "fail"]

\* the variables vs with the assignments as made
Assign(vs, as) == [k \in DOMAIN vs |-> IF k \in DOMAIN as THEN as[k] ELSE vs[k]]

\* the release inferred from the str release and without the build number
release_inferred_any_build(system, release, build_number) ==
    IF system = "Windows" /\ release = Str("10") THEN PyInt("11") ELSE release

\* if system == 'Windows' and release == 10 and build >= 22000: release = 11
release_inferred(system, release, build_number) ==
    IF system = "Windows" /\ release = PyInt("10") /\ build_number >= Win11Build
    THEN PyInt("11") ELSE release

\* '{}'.format(v) of a str or an int
format(v) == v.name

(***************************************************************************)
(* The application shell: the tabbers, the calls of __init__ and of the    *)
(* close callback, and the preparation of the environment.                 *)
(***************************************************************************)
\* the panes of the sidebar tabber, in the order they are added
sidebar_tab_names ==
    <<"space", "ground", "space_skills", "ground_skills", "empty", "settings">>

\* the panes of the build tabber, in the order they are added
build_tab_names ==
    <<"space_build", "ground_build", "space_skills", "ground_skills",
      "library", "settings">>

TabButtons == {"SPACE", "GROUND", "SPACE SKILLS", "GROUND SKILLS", "Settings"}

\* the menu buttons with Settings passing index 4
tab_button_index_settings_four ==
    [l \in TabButtons |->
        CASE l = "SPACE" -> 0
          [] l = "GROUND" -> 1
          [] l = "SPACE SKILLS" -> 2
          [] l = "GROUND SKILLS" -> 3
          [] l = "Settings" -> 4]

\* center_button_group and right_button_group: the index each menu button
\* passes to switch_main_tab
tab_button_index ==
    [l \in TabButtons |->
        CASE l = "SPACE" -> 0
          [] l = "GROUND" -> 1
          [] l = "SPACE SKILLS" -> 2
          [] l = "GROUND SKILLS" -> 3
          [] l = "Settings" -> 5]

\* op: the menu button pressed ("switch_main_tab" for a direct call);
\* index: the index passed
TabEvent(op, index) == [op |-> op, index |-> index]

\* setup_build_frames with cache_skills called last
setup_build_frames_calls_cache_last ==
    <<"setup_space_build_frame", "setup_ground_build_frame",
      "setup_space_skill_frame", "setup_ground_skill_frame", "cache_skills">>

\* the calls of setup_build_frames
setup_build_frames_calls ==
    <<"setup_space_build_frame", "setup_ground_build_frame", "cache_skills",
      "setup_space_skill_frame", "setup_ground_skill_frame">>

\* the calls of setup_main_layout to methods of the shell
setup_main_layout_calls ==
    <<"setup_splash", "setup_ship_frame", "setup_character_frame">>
        \o setup_build_frames_calls

\* __init__ with the backend initialization started before the window is
\* shown
init_calls_backend_before_show ==
    <<"WidgetStorage", "Cache", "init_settings", "init_config",
      "prepare_tooltip_css", "init_environment", "create_main_window",
      "empty_build">>
        \o setup_main_layout_calls
        \o <<"Picker", "ItemEditor", "ShipSelector", "create_context_menu",
             "init_backend", "window.show">>

\* __init__ starting the backend initialization a second time
init_calls_backend_twice ==
    <<"WidgetStorage", "Cache", "init_settings", "init_config",
      "prepare_tooltip_css", "init_environment", "create_main_window",
      "empty_build">>
        \o setup_main_layout_calls
        \o <<"Picker", "ItemEditor", "ShipSelector", "create_context_menu",
             "window.show", "init_backend", "init_backend">>

\* the calls of __init__, those of setup_main_layout in its place
init_calls ==
    <<"WidgetStorage", "Cache", "init_settings", "init_config",
      "prepare_tooltip_css", "init_environment", "create_main_window",
      "empty_build">>
        \o setup_main_layout_calls
        \o <<"Picker", "ItemEditor", "ShipSelector", "create_context_menu",
             "window.show", "init_backend">>

\* the close callback accepting the event first
close_calls_accept_first ==
    <<"event.accept", "window.saveGeometry", "settings.setValue", "autosave">>

\* the calls of main_window_close_callback
close_calls ==
    <<"window.saveGeometry", "settings.setValue", "autosave", "event.accept">>

\* call a occurs in the log, once, and before every occurrence of call b
Before(log, a, b) ==
    /\ Cardinality({i \in 1..Len(log) : log[i] = a}) = 1
    /\ \E j \in 1..Len(log) : log[j] = b
    /\ \A i, j \in 1..Len(log) : (log[i] = a /\ log[j] = b) => i < j

\* how often the log holds the call
Count(log, a) == Cardinality({i \in 1..Len(log) : log[i] = a})

\* the backend initialization workers after the calls of the log: each
\* init_backend starts one background task
Backend(log) ==
    [starts |-> Count(log, "init_backend"),
     workers |-> Count(log, "init_backend")]

\* init_environment writing the empty build whether the file exists or not
init_environment_always_writes(file, exists) ==
    [file |-> store_json(empty_build), written |-> TRUE]

\* init_environment on the autosave file: the empty build is written if no
\* file exists
init_environment(file, exists) ==
    IF ~exists
    THEN [file |-> store_json(empty_build), written |-> TRUE]
    ELSE [file |-> file, written |-> FALSE]

(***************************************************************************)
(* ImageLabel: the image, the aspect ratio and the painted height.         *)
(***************************************************************************)
\* the largest side of an image or of an aspect ratio
MaxSide == 3

\* the largest width the layout gives the widget
MaxWidth == 4

QImage(width, height) == [width |-> width, height |-> height]

\* QImage(): the null image
NullImage == QImage(0, 0)

isNull(p) == p.width = 0 \/ p.height = 0

\* the images a path can load and set_image can be given
QImages ==
    {NullImage} \cup {QImage(x, y) : x \in 1..MaxSide, y \in 1..MaxSide}

QRect(x, y, width, height) ==
    [x |-> x, y |-> y, width |-> width, height |-> height]

\* the quotient rounded to the nearest integer
int_truediv_nearest(n, d) == (2 * n + d) \div (2 * d)

\* int(n / d) for d > 0: the quotient of the two integers, its fraction
\* dropped towards zero
int_truediv(n, d) == IF n >= 0 THEN n \div d ELSE -((-n) \div d)

(***************************************************************************)
(* The edit handlers of the ship and character frames.                     *)
(***************************************************************************)
\* the lambdas holding the record that was the live build at wiring
lambda_build_at_wiring(wired) ==
    IF wired = <<>> THEN "self.build" ELSE "wired"

\* the record the lambdas of name_entry, desc_edit and char_name pass to
\* set_build_item: self.build, looked up when the lambda is called
lambda_build(wired) == "self.build"

(***************************************************************************)
(* Cache: the boff ability caches.                                         *)
(***************************************************************************)
\* boff_dict is called at most this often
MaxBoffDicts == 6

Specializations ==
    {"Tactical", "Engineering", "Science", "Intelligence", "Command",
     "Pilot", "Temporal", "Miracle Worker"}

BoffEnvs == {"space", "ground"}

\* the abilities added to the caches
Abilities == {"Beam Overload"}

\* the dict object created for the specialization and rank by a call of
\* boff_dict
NewDict(call, spec, rank) == [call |-> call, spec |-> spec, rank |-> rank]

\* boff_dict with one dict object for the four ranks of a specialization
boff_dict_shared_ranks(call) ==
    [s \in Specializations |-> [r \in 1..4 |-> NewDict(call, s, 1)]]

\* Cache.boff_dict, as its call number call
boff_dict(call) ==
    [s \in Specializations |-> [r \in 1..4 |-> NewDict(call, s, r)]]

\* the dict objects a cache refers to
Buckets(ba) ==
    {ba[e][s][r] : e \in DOMAIN ba, s \in Specializations, r \in 1..4}

\* Cache.reset_cache after calls calls of boff_dict: the two caches, the
\* objects created (all empty), and the calls made
reset_cache_boff(calls) ==
    LET ba == [space |-> boff_dict(calls + 1), ground |-> boff_dict(calls + 2)]
    IN  [boff_abilities |-> ba,
         heap |-> [b \in Buckets(ba) |-> {}],
         calls |-> calls + 2]

CacheCalled(op, env, spec, rank) ==
    [op |-> op, env |-> env, spec |-> spec, rank |-> rank]

(***************************************************************************)
(* The space skill panel.                                                  *)
(***************************************************************************)
\* the ranks of the cached skill tree
MaxRanks == 3

\* the groups of a rank
MaxGroups == 4

\* the id offset growing with the group index
id_offset_by_group(rank, group_id) == rank * 6 + group_id * 3

\* id_offset of the group group_id of the rank
id_offset(rank, group_id) == rank * 6 + (group_id % 2) * 3

\* the cached skill trees: the number of groups of each rank
SkillTrees ==
    UNION {[1..n -> 0..MaxGroups] : n \in 0..MaxRanks}

\* the loop of setup_space_skill_frame over enumerate(skills) and
\* enumerate(skill_groups): the group laid out at (rank, group_id)
space_skill_groups(skills) ==
    UNION {{[rank |-> rank, group_id |-> group_id,
             id_offset |-> id_offset(rank, group_id)] :
               group_id \in 0..(skills[rank + 1] - 1)} :
           rank \in 0..(Len(skills) - 1)}

\* the skill tree of the game data read by cache_skills
some_skills == [rank \in 1..MaxRanks |-> MaxGroups]

(***************************************************************************)
(* State.                                                                  *)
(***************************************************************************)
VARIABLES
    build,          \* SETS.build, the live build record
    autosave_file,  \* the JSON document at config['autosave_filename']
    save_file,      \* the user's build file: <<>> or <<its JSON document>>
    saved,          \* <<the build record the user's file was written from>>
    clipboard,      \* the copied equipment entry: <<>> or <<[item, category]>>
    last,           \* the user action handled last and what its handler did
    running,        \* a SETS instance exists (constructed, window not closed)
    settings,       \* SETS.settings: the QSettings object's key/value view
    settings_file,  \* the INI file at config['settings_path']
    config_ui_scale, \* config['ui_scale'] as read by init_config
    thread_cfg,      \* the keyword arguments exec_in_thread was called with
    thread_state,    \* the QThread: none, starting, running, finished, deleted
    trigger_returned, \* exec_in_thread returned worker.start
    trigger_emits,   \* how often the caller emitted the returned trigger
    worker_queue,    \* events posted to the worker's thread, oldest first
    worker_deleted,  \* the worker's deleteLater was carried out
    func_state,      \* the wrapped function: idle or executing
    signals_emitted, \* signals the function emitted in its current execution
    runs,            \* executions of the wrapped function begun
    returns,         \* executions that returned
    raises,          \* executions that ended in an exception
    main_queue,      \* events posted to the interactive thread, oldest first
    handler_calls,   \* invocations of each caller-supplied handler
    quit_calls,      \* invocations of thread.quit
    quit_requested,  \* the thread's event loop was told to exit
    main_args,       \* the emission behind each event of main_queue
    emitted,         \* the emissions followed, oldest first
    handled,         \* the handler invocations for them, oldest first
    following,       \* the run is followed: the emissions of the task are
                     \* logged and the replaced build record is kept alive
    tooltip_text,    \* ItemButton._tooltip.text()
    tooltip_visible, \* ItemButton._tooltip is shown
    hovered,         \* the pointer is over the ItemButton
    item_base,       \* ItemButton._base
    item_overlay,    \* ItemButton._overlay
    button_event,    \* the event the ItemButton handled last and what it emitted
    host,            \* the host the diagnostics utility runs on
    snap_pc,         \* the statement of snapshot.py reached
    snap,            \* the variables of snapshot.py
    printed,         \* the lines snapshot.py has printed, oldest first
    build_tabber,    \* widgets.build_tabber.currentIndex()
    sidebar_tabber,  \* widgets.sidebar_tabber.currentIndex()
    tab_event,       \* the menu button or tab index handled last
    call_log,        \* the calls made by __init__ or the close callback
                     \* handled last, in the order they were made
    autosave_exists, \* a file exists at config['autosave_filename']
    backend,         \* init_backend calls of this run, workers in flight
    image_p,         \* ImageLabel.p, the image held
    image_w,         \* ImageLabel._w
    image_h,         \* ImageLabel._h
    image_width,     \* ImageLabel.width(), given by the layout
    image_drawn,     \* the rectangle the image was drawn in last: <<>>, <<r>>
    image_fixed_height, \* the height setFixedHeight was given last
    image_event,     \* the call of the ImageLabel handled last
    wired_build,     \* the record that was the live build when the edit
                     \* handlers were wired, once it is replaced: <<>>, <<r>>
    cache_heap,      \* the dict objects of the boff caches and their keys
    boff_abilities,  \* Cache.boff_abilities 'space' and 'ground': the
                     \* object at each specialization and rank
    cache_calls,     \* calls of Cache.boff_dict made so far
    cache_event,     \* the operation on the cache handled last
    skills_space,    \* Cache.skills['space']: the groups of each rank
    skill_groups     \* the skill groups of the space skill panel built

buildVars ==
    <<build, autosave_file, save_file, saved, clipboard, last, wired_build>>

settingsVars == <<running, settings, settings_file, config_ui_scale>>

threadVars ==
    <<thread_cfg, thread_state, trigger_returned, trigger_emits, worker_queue,
      worker_deleted, func_state, signals_emitted, runs, returns, raises,
      main_queue, handler_calls, quit_calls, quit_requested, main_args,
      emitted, handled, following>>

\* the emissions and handler invocations in their order
traceVars == <<main_args, emitted, handled>>

buttonVars ==
    <<tooltip_text, tooltip_visible, hovered, item_base, item_overlay,
      button_event>>

\* the widget library's state, which the application shell leaves alone
widgetVars == <<threadVars, buttonVars>>

snapshotVars == <<host, snap_pc, snap, printed>>

shellVars ==
    <<build_tabber, sidebar_tabber, tab_event, call_log, autosave_exists,
      backend>>

\* the state the callbacks on the build and the widget library leave alone
imageVars ==
    <<image_p, image_w, image_h, image_width, image_drawn,
      image_fixed_height, image_event>>

cacheVars == <<cache_heap, boff_abilities, cache_calls, cache_event>>

skillVars == <<skills_space, skill_groups>>

\* the cache and the skill panel
restVars == <<cacheVars, skillVars>>

moreVars == <<snapshotVars, shellVars, imageVars, restVars>>

\* what the callbacks on the build leave alone
otherVars == <<settingsVars, widgetVars, moreVars>>

vars == <<buildVars, settingsVars, threadVars, buttonVars, moreVars>>

\* op: the user action; slot: the slot it worked on; value: the value it was
\* given; autosaved: it wrote the autosave file; raised: it ended in an
\* exception
Did(op, slot, value, autosaved, raised) ==
    [op |-> op, slot |-> slot, value |-> value, autosaved |-> autosaved,
     raised |-> raised]

NoSlot == Slot("", "", -1, -1)

InitBuild ==
    /\ build = empty_build
    /\ autosave_file = store_json(empty_build)
    /\ save_file = <<>>
    /\ saved = <<>>
    /\ clipboard = <<>>
    /\ last = Did("init", NoSlot, None, FALSE, FALSE)
    /\ wired_build = <<>>

\* the first run: no settings file yet
InitSettings ==
    /\ running = TRUE
    /\ settings = init_settings(no_settings)
    /\ settings_file = no_settings
    /\ config_ui_scale = value_float(init_settings(no_settings), "ui_scale")

\* exec_in_thread not called yet
no_handlers ==
    [result |-> FALSE, update_splash |-> FALSE, finished |-> FALSE,
     start_later |-> FALSE]

InitThread ==
    /\ thread_cfg = no_handlers
    /\ thread_state = "none"
    /\ trigger_returned = FALSE
    /\ trigger_emits = 0
    /\ worker_queue = <<>>
    /\ worker_deleted = FALSE
    /\ func_state = "idle"
    /\ signals_emitted = 0
    /\ runs = 0
    /\ returns = 0
    /\ raises = 0
    /\ main_queue = <<>>
    /\ handler_calls = [result |-> 0, update_splash |-> 0, finished |-> 0]
    /\ quit_calls = 0
    /\ quit_requested = FALSE
    /\ main_args = <<>>
    /\ emitted = <<>>
    /\ handled = <<>>
    /\ following = FALSE

\* what an ItemButton event emitted: ev the event, button and x, y the
\* mouse button and the local position of a release
Handled(ev, button, x, y, clicked, rightclicked) ==
    [ev |-> ev, button |-> button, x |-> x, y |-> y, clicked |-> clicked,
     rightclicked |-> rightclicked]

\* ItemButton.__init__: no images, the tooltip label as passed in
InitButton ==
    /\ tooltip_text = ""
    /\ tooltip_visible = FALSE
    /\ hovered = FALSE
    /\ item_base = "None"
    /\ item_overlay = "None"
    /\ button_event = Handled("init", "", 0, 0, 0, 0)

\* snapshot.py on host h after  release = platform.release()
InitSnapshot(h) ==
    /\ host = h
    /\ snap_pc = "build"
    /\ snap = [release |-> Str(h.release), build |-> <<>>,
               tkinter_version |-> "unset", tk_screen_geometry |-> "unset",
               dpi |-> "unset", factor |-> "unset", distribution |-> "unset",
               PIL_version |-> "unset", numpy_version |-> "unset",
               os_text |-> [system |-> "unset", release |-> "unset",
                            build |-> <<>>, distribution |-> "unset"]]
    /\ printed = <<>>

InitWidgets == InitThread /\ InitButton

\* the shell after __init__ on a first run
InitShell ==
    /\ build_tabber = 0
    /\ sidebar_tabber = 0
    /\ tab_event = TabEvent("init", 0)
    /\ call_log = init_calls
    /\ autosave_exists = TRUE
    /\ backend = Backend(init_calls)

ImageCalled(op, raised) == [op |-> op, raised |-> raised]

\* ImageLabel(path, aspect_ratio): p is the image loaded from the path;
\* not laid out and not painted yet
ImageLabel_init(p, aspect_w, aspect_h) ==
    /\ image_w = aspect_w
    /\ image_h = aspect_h
    /\ image_p = p
    /\ image_width = 0
    /\ image_drawn = <<>>
    /\ image_fixed_height = <<>>
    /\ image_event = ImageCalled("__init__", FALSE)

\* ImageLabel(): no path, the aspect ratio (0, 0)
InitImage == ImageLabel_init(NullImage, 0, 0)

\* Cache(): reset_cache called by __init__
InitCache ==
    /\ boff_abilities = reset_cache_boff(0).boff_abilities
    /\ cache_heap = reset_cache_boff(0).heap
    /\ cache_calls = reset_cache_boff(0).calls
    /\ cache_event = CacheCalled("__init__", "", "", 0)

\* the skill tree cached and the space skill panel built from it
InitSkills ==
    /\ skills_space = some_skills
    /\ skill_groups = space_skill_groups(some_skills)

InitRest == InitCache /\ InitSkills

Init ==
    /\ InitBuild /\ InitSettings /\ InitWidgets /\ InitShell /\ InitImage
    /\ InitRest
    /\ InitSnapshot(some_host)

(***************************************************************************)
(* The callbacks.  Each takes the user action op it handles.               *)
(***************************************************************************)
\* autosave(): the live build written to the autosave file
autosave(b) == store_json(b)

\* set_build_item(dictionary, key, value, autosave=True) on a field of the
\* build: dictionary[key] = value, then the autosave unless suppressed
set_build_item(part, key, value, do_autosave, op) ==
    /\ IF lambda_build(wired_build) = "self.build"
       THEN /\ build' = [build EXCEPT ![part][key] = value]
            /\ UNCHANGED wired_build
       ELSE /\ wired_build' = <<[wired_build[1] EXCEPT ![part][key] = value]>>
            /\ UNCHANGED build
    /\ autosave_file' = IF do_autosave THEN autosave(build') ELSE autosave_file
    /\ last' = Did(op, NoSlot, value, do_autosave, FALSE)
    /\ UNCHANGED <<save_file, saved, clipboard>>
    /\ UNCHANGED otherVars

\* set_build_item(self.build[env][key], idx, item): an item picked for slot s
SetItem(s, item, op) ==
    /\ IF InRange(build, s)
       THEN /\ build' = SlotPut(build, s, item)
            /\ autosave_file' = autosave(build')
            /\ last' = Did(op, s, item, TRUE, FALSE)
       ELSE \* list assignment index out of range
            /\ last' = Did(op, s, item, FALSE, TRUE)
            /\ UNCHANGED <<build, autosave_file>>
    /\ UNCHANGED <<save_file, saved, clipboard>>

\* clear_slot: the slot's entry is overwritten by its absent value
clear_slot(s, op) ==
    /\ IF InRange(build, s)
       THEN /\ build' = SlotPut(build, s, Sentinel(s))
            /\ autosave_file' = autosave(build')
            /\ last' = Did(op, s, None, TRUE, FALSE)
       ELSE /\ last' = Did(op, s, None, FALSE, TRUE)
            /\ UNCHANGED <<build, autosave_file>>
    /\ UNCHANGED <<save_file, saved, clipboard>>

\* clear_build_callback: the current sub-record is reset, the other one kept
clear_build_callback(env, op) ==
    /\ build' = [build EXCEPT ![env] = empty_build[env]]
    /\ autosave_file' = autosave(build')
    /\ last' = Did(op, NoSlot, None, TRUE, FALSE)
    /\ UNCHANGED <<save_file, saved, clipboard, wired_build>>

\* clear_all: the whole build is reset, captain included
clear_all(op) ==
    /\ build' = empty_build
    /\ autosave_file' = autosave(build')
    /\ last' = Did(op, NoSlot, None, TRUE, FALSE)
    /\ UNCHANGED <<save_file, saved, clipboard, wired_build>>

\* save_build_callback: the live build written to the user's file
save_build_callback(op) ==
    /\ save_file' = <<store_json(build)>>
    /\ saved' = <<build>>
    /\ last' = Did(op, NoSlot, None, FALSE, FALSE)
    /\ UNCHANGED <<build, autosave_file, clipboard, wired_build>>

\* load_build_callback: the user's file read, and the live build replaced
load_build_callback(op) ==
    /\ save_file # <<>>
    /\ build' = load_json(save_file[1])
    /\ wired_build' = IF following /\ wired_build = <<>>
                      THEN <<build>> ELSE wired_build
    /\ autosave_file' = autosave(build')
    /\ last' = Did(op, NoSlot, None, TRUE, FALSE)
    /\ UNCHANGED <<save_file, saved, clipboard>>

\* copy_equipment_item: the clipboard takes the slot's entry and category;
\* copying an empty slot leaves the clipboard as it is or empties it
copy_equipment_item(s, op) ==
    /\ IF SlotGet(build, s).t = "dict"
       THEN clipboard' = <<[item |-> SlotGet(build, s), category |-> s.key]>>
       ELSE clipboard' \in {clipboard, <<>>}
    /\ last' = Did(op, s, None, FALSE, FALSE)
    /\ UNCHANGED <<build, autosave_file, save_file, saved>>

\* paste_equipment_item: nothing is done with an empty clipboard or an entry
\* of another category; else the slot takes the clipboard's entry
paste_equipment_item(s, op) ==
    /\ IF clipboard = <<>> \/ clipboard[1].category # s.key
       THEN /\ last' = Did(op, s, None, FALSE, FALSE)
            /\ UNCHANGED <<build, autosave_file>>
       ELSE /\ build' = SlotPut(build, s, clipboard[1].item)
            /\ autosave_file' = autosave(build')
            /\ last' = Did(op, s, None, TRUE, FALSE)
    /\ UNCHANGED <<save_file, saved, clipboard>>

\* open_wiki_context: the item's page opened: no change of the build
open_wiki_context(s, op) ==
    /\ last' = Did(op, s, None, FALSE, FALSE)
    /\ UNCHANGED <<build, autosave_file, save_file, saved, clipboard>>

\* the modifier choices of the item editor
ModChoices == {<<>>, <<"mk", "epic">>}

\* edit_equipment_item: the item editor writes the chosen modifiers back
edit_equipment_item(s, mods, op) ==
    /\ IF SlotGet(build, s).t = "dict"
       THEN /\ build' = SlotPut(build, s, Dict(SlotGet(build, s).name, mods))
            /\ autosave_file' = autosave(build')
            /\ last' = Did(op, s, None, TRUE, FALSE)
       ELSE /\ last' = Did(op, s, None, FALSE, FALSE)
            /\ UNCHANGED <<build, autosave_file>>
    /\ UNCHANGED <<save_file, saved, clipboard>>

(***************************************************************************)
(* The user actions.                                                       *)
(***************************************************************************)
\* a button of the left menu group pressed
Press(label) ==
    LET cb == left_button_group[label] IN
    /\ CASE cb = "save_build_callback" -> save_build_callback(label)
         [] cb = "load_build_callback" -> load_build_callback(label)
         [] cb = "clear_build_callback" -> \E env \in Envs : clear_build_callback(env, label)
         [] cb = "clear_all" -> clear_all(label)
    /\ UNCHANGED otherVars

\* an entry of the context menu chosen on the slot clicked last
ContextMenu(s, label) ==
    LET cb == context_menu_actions[label] IN
    /\ CASE cb = "copy_equipment_item" -> copy_equipment_item(s, label)
         [] cb = "paste_equipment_item" -> paste_equipment_item(s, label)
         [] cb = "clear_slot" -> clear_slot(s, label)
         [] cb = "open_wiki_context" -> open_wiki_context(s, label)
         [] cb = "edit_equipment_item" -> \E mods \in ModChoices : edit_equipment_item(s, mods, label)
    /\ UNCHANGED wired_build
    /\ UNCHANGED otherVars

\* the picker confirmed with an item for slot s
Pick(s, item) ==
    SetItem(s, item, "pick") /\ UNCHANGED wired_build /\ UNCHANGED otherVars

\* name_entry.editingFinished
name_entry_editingFinished(text) ==
    set_build_item("space", "ship_name", Str(text), TRUE, "ship_name")

\* desc_edit.textChanged wired without autosave=False
desc_edit_textChanged_autosaving(text) ==
    set_build_item("space", "ship_desc", Str(text), TRUE, "ship_desc")

\* desc_edit.textChanged
desc_edit_textChanged(text) ==
    set_build_item("space", "ship_desc", Str(text), FALSE, "ship_desc")

\* char_name.editingFinished
char_name_editingFinished(text) ==
    set_build_item("captain", "name", Str(text), TRUE, "char_name")

\* career_combo.currentTextChanged
career_combo_currentTextChanged(text) ==
    set_build_item("captain", "career", Str(text), TRUE, "career")

CanFill(s) == Cardinality(Filled(build) \cup {s}) <= MaxFilled

(***************************************************************************)
(* SpecBuild: the build mutation operations on the slots.                  *)
(***************************************************************************)
NextBuild ==
    \/ \E s \in EditSlots, item \in Items : CanFill(s) /\ Pick(s, item)
    \/ \E s \in EditSlots : ContextMenu(s, "Clear Slot")
    \/ Press("Clear")
    \/ Press("Clear all")

SpecBuild == Init /\ [][NextBuild]_vars

SaveSlots ==
    {Slot("space", "fore_weapons", 0, -1), LastSlot("space", "core"),
     Slot("ground", "boffs", 3, 3)}

NextSave ==
    \/ \E s \in SaveSlots, item \in Items : Pick(s, item)
    \/ \E s \in SaveSlots : ContextMenu(s, "Clear Slot")
    \/ \E text \in {"", "a"} : name_entry_editingFinished(text)
    \/ Press("Save")
    \/ Press("Open")
    \/ Press("Clear")
    \/ Press("Clear all")

SpecSave == Init /\ [][NextSave]_vars

NextEdit ==
    \/ \E text \in Texts : name_entry_editingFinished(text)
    \/ \E text \in Texts : desc_edit_textChanged(text)
    \/ \E text \in Texts : char_name_editingFinished(text)
    \/ \E text \in Texts : career_combo_currentTextChanged(text)

SpecEdit == Init /\ [][NextEdit]_vars

(***************************************************************************)
(* C3: an edit of the ship description updates ship_desc and writes no     *)
(* autosave file; a finished edit of the ship name updates ship_name and   *)
(* writes the autosave file.                                               *)
(***************************************************************************)
C3_DescEditNoAutosave ==
    /\ last.op = "ship_desc" =>
          /\ build.space.ship_desc = last.value
          /\ ~last.autosaved
    /\ last.op = "ship_name" =>
          /\ build.space.ship_name = last.value
          /\ last.autosaved
          /\ autosave_file = store_json(build)

\* the description was edited and the autosave file still holds the old one
C3_Witness ==
    /\ last.op = "ship_desc"
    /\ build.space.ship_desc = Str("b")
    /\ build.space.ship_name = Str("a")
    /\ autosave_file.space.ship_name = json_dumps(Str("a"))
    /\ autosave_file.space.ship_desc # json_dumps(Str("b"))

(***************************************************************************)
(* SpecClip: the context menu on equipment slots.                          *)
(***************************************************************************)
\* two slots of one category and a slot of another
ClipSlots ==
    {Slot("space", "fore_weapons", 0, -1), LastSlot("space", "fore_weapons"),
     LastSlot("space", "core")}

NextClip ==
    \/ \E s \in ClipSlots, item \in Items : Pick(s, item)
    \/ \E s \in ClipSlots : ContextMenu(s, "Copy Item")
    \/ \E s \in ClipSlots : ContextMenu(s, "Paste Item")
    \/ \E s \in ClipSlots : ContextMenu(s, "Clear Slot")
    \/ \E s \in ClipSlots : ContextMenu(s, "Open Wiki")
    \/ \E s \in ClipSlots : ContextMenu(s, "Edit Slot")

SpecClip == Init /\ [][NextClip]_vars

(***************************************************************************)
(* C5: Copy Item on a slot holding an item puts the item, its modifiers    *)
(* and the slot's category on the clipboard; Paste Item on a slot of the   *)
(* clipboard's category makes that slot equal to the copied item and       *)
(* modifiers and changes no other slot; Paste Item on a slot of another    *)
(* category, or with an empty clipboard, leaves the build unchanged.       *)
(***************************************************************************)
C5_PasteSemantics ==
    [][/\ (last'.op = "Copy Item" /\ SlotGet(build, last'.slot).t = "dict") =>
             clipboard' = <<[item |-> SlotGet(build, last'.slot),
                             category |-> last'.slot.key]>>
       /\ last'.op = "Paste Item" =>
             IF clipboard # <<>> /\ clipboard[1].category = last'.slot.key
             THEN /\ SlotGet(build', last'.slot) = clipboard[1].item
                  /\ build' = SlotPut(build, last'.slot, clipboard[1].item)
             ELSE build' = build]_vars

\* an item with modifiers was copied from one fore weapon slot and pasted
\* into the other
C5_Witness ==
    /\ last.op = "Paste Item"
    /\ last.slot = LastSlot("space", "fore_weapons")
    /\ clipboard = <<[item |-> Dict("torpedo", <<"mk", "epic">>), category |-> "fore_weapons"]>>
    /\ SlotGet(build, last.slot) = Dict("torpedo", <<"mk", "epic">>)
    /\ SlotGet(build, Slot("space", "fore_weapons", 0, -1)) = Dict("torpedo", <<"mk", "epic">>)
    /\ SlotGet(build, LastSlot("space", "core")) = Str("")
    /\ last.autosaved

(***************************************************************************)
(* SpecSettings: the settings store over runs of the application.          *)
(***************************************************************************)
\* SETS.__init__ of a new run: init_settings on the store loaded from the
\* file, init_config reading ui_scale, the empty build installed
SETS_init ==
    /\ ~running
    /\ running' = TRUE
    /\ settings' = init_settings(settings_file)
    /\ config_ui_scale' = value_float(settings', "ui_scale")
    /\ build' = empty_build
    /\ wired_build' = <<>>
    /\ clipboard' = <<>>
    /\ autosave_file' = init_environment(autosave_file, autosave_exists).file
    /\ autosave_exists' = TRUE
    /\ last' = Did("launch", NoSlot, None,
                   init_environment(autosave_file, autosave_exists).written,
                   FALSE)
    /\ build_tabber' = 0
    /\ sidebar_tabber' = 0
    /\ tab_event' = TabEvent("init", 0)
    /\ call_log' = init_calls
    /\ backend' = Backend(init_calls)
    /\ boff_abilities' = reset_cache_boff(0).boff_abilities
    /\ cache_heap' = reset_cache_boff(0).heap
    /\ cache_calls' = reset_cache_boff(0).calls
    /\ cache_event' = CacheCalled("__init__", "", "", 0)
    /\ skills_space' = some_skills
    /\ skill_groups' = space_skill_groups(some_skills)
    /\ UNCHANGED <<save_file, saved, settings_file>>
    /\ UNCHANGED <<widgetVars, snapshotVars, imageVars>>

\* the ui_scale setting changed by the user
change_ui_scale(x) ==
    /\ running
    /\ settings' = setValue(settings, "ui_scale", Float(x))
    /\ last' = Did("setting", NoSlot, Float(x), FALSE, FALSE)
    /\ UNCHANGED <<build, autosave_file, save_file, saved, clipboard,
                   wired_build>>
    /\ UNCHANGED <<running, settings_file, config_ui_scale>>
    /\ UNCHANGED <<widgetVars, moreVars>>

\* QSettings writes the store to the file from the event loop
QSettings_sync ==
    /\ running
    /\ settings_file # sync(settings)
    /\ settings_file' = sync(settings)
    /\ UNCHANGED <<buildVars, running, settings, config_ui_scale>>
    /\ UNCHANGED <<widgetVars, moreVars>>

\* main_window_close_callback: the geometry stored, the build autosaved and
\* the close accepted; the run ends and the store is written to the file
main_window_close_callback(geometry) ==
    /\ running
    /\ settings' = setValue(settings, "geometry", QByteArray(geometry))
    /\ autosave_file' = autosave(build)
    /\ last' = Did("close", NoSlot, QByteArray(geometry), TRUE, FALSE)
    /\ running' = FALSE
    /\ settings_file' = sync(settings')
    /\ call_log' = close_calls
    /\ backend' = Backend(close_calls)
    /\ UNCHANGED <<build, save_file, saved, clipboard, config_ui_scale,
                   wired_build>>
    /\ UNCHANGED <<build_tabber, sidebar_tabber, tab_event, autosave_exists>>
    /\ UNCHANGED <<widgetVars, snapshotVars, imageVars, restVars>>

\* between runs the user deletes the settings file
delete_settings_file ==
    /\ ~running
    /\ settings_file # no_settings
    /\ settings_file' = no_settings
    /\ UNCHANGED <<buildVars, running, settings, config_ui_scale>>
    /\ UNCHANGED <<widgetVars, moreVars>>

\* between runs the user removes one entry from the settings file
remove_setting(key) ==
    /\ ~running
    /\ settings_file[key] # <<>>
    /\ settings_file' = [settings_file EXCEPT ![key] = <<>>]
    /\ UNCHANGED <<buildVars, running, settings, config_ui_scale>>
    /\ UNCHANGED <<widgetVars, moreVars>>

NextSettings ==
    \/ SETS_init
    \/ \E x \in {"1.25", "1.5"} : change_ui_scale(x)
    \/ QSettings_sync
    \/ \E g \in Geometries : main_window_close_callback(g)
    \/ delete_settings_file
    \/ \E k \in SettingKeys : remove_setting(k)

SpecSettings == Init /\ [][NextSettings]_vars

(***************************************************************************)
(* C4: when a run starts, after init_settings every key of the default     *)
(* settings has an entry in the store: the value the settings file held    *)
(* for it if the file had an entry, else the configured default.  On a     *)
(* run without a settings file every default key holds its default; a      *)
(* ui_scale changed in an earlier run is kept and is the scale the run     *)
(* reads.                                                                  *)
(***************************************************************************)
C4_InitSettingsKeepsStored ==
    [][(~running /\ running') =>
          /\ \A k \in DOMAIN default_settings :
                settings'[k] = IF settings_file[k] # <<>>
                               THEN settings_file[k]
                               ELSE <<default_settings[k]>>
          /\ settings_file = no_settings =>
                \A k \in DOMAIN default_settings :
                    settings_value(settings', k) = default_settings[k]
          /\ settings_file.ui_scale = <<Str("1.25")>> =>
                config_ui_scale' = Float("1.25")]_vars

\* a second run started: the ui_scale set to 1.25 and the geometry of the
\* first run are in the store
C4_Witness ==
    /\ running
    /\ last.op = "launch"
    /\ settings.ui_scale = <<Str("1.25")>>
    /\ settings.geometry = <<QByteArray("g1")>>
    /\ config_ui_scale = Float("1.25")

(***************************************************************************)
(* SpecThread: exec_in_thread and ThreadObject.  The worker lives in the   *)
(* new thread, the QThread object and the caller's handlers in the         *)
(* interactive thread: a signal emitted in one thread for a receiver in    *)
(* the other is posted to the receiver's thread and handled by its event   *)
(* loop, in the order of emission.                                         *)
(***************************************************************************)
\* the trigger is emitted at most this often
MaxStarts == 2

\* the wrapped function emits at most this many signals per execution
MaxSignals == 2

\* the keyword arguments of a call: which handlers are given, start_later
ThreadConfigs ==
    [result : BOOLEAN, update_splash : BOOLEAN, finished : BOOLEAN,
     start_later : BOOLEAN]

\* an emission of the worker: the signal, the execution of the function it
\* belongs to, and its number among the emissions of that execution
Emission(sig, run, n) == [sig |-> sig, run |-> run, n |-> n]

\* the emission of the signal as it is followed to the caller's handlers: a
\* status message or the completion of a task that has a progress handler
\* and a completion handler, if the task is followed; the signal alone
\* otherwise
Followed(cfg, sig, run, n) ==
    IF /\ following
       /\ cfg.update_splash /\ cfg.finished
       /\ sig \in {"update_splash", "finished"}
    THEN Emission(sig, run, n) ELSE Emission(sig, 0, 0)

\* the slots of worker.finished without the caller's handler
worker_finished_slots_no_handler(cfg) ==
    <<"thread.quit", "worker.deleteLater">>

\* the slots of worker.finished without thread.quit
worker_finished_slots_no_quit(cfg) ==
    (IF cfg.finished THEN <<"finished">> ELSE <<>>) \o <<"worker.deleteLater">>

\* the slots connected to worker.finished, in the order of connection
worker_finished_slots(cfg) ==
    (IF cfg.finished THEN <<"finished">> ELSE <<>>)
        \o <<"thread.quit", "worker.deleteLater">>

\* worker.run connected the other way round
run_signal_swapped(start_later) ==
    IF start_later THEN "thread.started" ELSE "worker.start"

\* the signal worker.run is connected to
run_signal(start_later) ==
    IF start_later THEN "worker.start" ELSE "thread.started"

\* the slots of a signal that are handled in the interactive thread
MainSlots(slots) == SelectSeq(slots, LAMBDA s : s # "worker.deleteLater")

\* the slots of a signal that are handled in the worker's thread
WorkerSlots(slots) == SelectSeq(slots, LAMBDA s : s = "worker.deleteLater")

\* exec_in_thread(func, result=, update_splash=, finished=, start_later=)
exec_in_thread(cfg) ==
    /\ thread_state = "none"
    /\ thread_cfg' = cfg
    /\ thread_state' = "starting"
    /\ trigger_returned' = cfg.start_later
    /\ UNCHANGED <<trigger_emits, worker_queue, worker_deleted, func_state,
                   signals_emitted, runs, returns, raises, main_queue,
                   handler_calls, quit_calls, quit_requested>>
    /\ UNCHANGED traceVars
    /\ UNCHANGED <<buildVars, settingsVars, buttonVars, moreVars, following>>

\* the new thread begins: thread.started is emitted in it, which calls
\* worker.run if connected, and the thread's event loop is entered after
thread_started ==
    /\ thread_state = "starting"
    /\ thread_state' = "running"
    /\ IF run_signal(thread_cfg.start_later) = "thread.started"
       THEN /\ func_state' = "executing"
            /\ runs' = runs + 1
       ELSE UNCHANGED <<func_state, runs>>
    /\ UNCHANGED <<thread_cfg, trigger_returned, trigger_emits, worker_queue,
                   worker_deleted, signals_emitted, returns, raises,
                   main_queue, handler_calls, quit_calls, quit_requested>>
    /\ UNCHANGED traceVars
    /\ UNCHANGED <<buildVars, settingsVars, buttonVars, moreVars, following>>

\* the caller emits the trigger it was returned
start_emit ==
    /\ trigger_returned
    /\ ~worker_deleted
    /\ trigger_emits < MaxStarts
    /\ trigger_emits' = trigger_emits + 1
    /\ worker_queue' =
          IF run_signal(thread_cfg.start_later) = "worker.start"
          THEN Append(worker_queue, "run") ELSE worker_queue
    /\ UNCHANGED <<thread_cfg, thread_state, trigger_returned, worker_deleted,
                   func_state, signals_emitted, runs, returns, raises,
                   main_queue, handler_calls, quit_calls, quit_requested>>
    /\ UNCHANGED traceVars
    /\ UNCHANGED <<buildVars, settingsVars, buttonVars, moreVars, following>>

\* the event loop of the worker's thread handles its oldest event
worker_event ==
    /\ thread_state = "running"
    /\ func_state = "idle"
    /\ worker_queue # <<>>
    /\ worker_queue' = Tail(worker_queue)
    /\ IF Head(worker_queue) = "run"
       THEN /\ func_state' = IF worker_deleted THEN "idle" ELSE "executing"
            /\ runs' = IF worker_deleted THEN runs ELSE runs + 1
            /\ signals_emitted' = 0
            /\ UNCHANGED worker_deleted
       ELSE /\ worker_deleted' = TRUE
            /\ UNCHANGED <<func_state, runs, signals_emitted>>
    /\ UNCHANGED <<thread_cfg, thread_state, trigger_returned, trigger_emits,
                   returns, raises, main_queue, handler_calls, quit_calls,
                   quit_requested>>
    /\ UNCHANGED traceVars
    /\ UNCHANGED <<buildVars, settingsVars, buttonVars, moreVars, following>>

\* the executing function emits threaded_worker.result or .update_splash:
\* the caller's handler, if one is connected, is posted
func_emit(sig) ==
    /\ func_state = "executing"
    /\ signals_emitted < MaxSignals
    /\ signals_emitted' = signals_emitted + 1
    /\ main_queue' = IF thread_cfg[sig] THEN Append(main_queue, sig)
                                        ELSE main_queue
    /\ UNCHANGED <<thread_cfg, thread_state, trigger_returned, trigger_emits,
                   worker_queue, worker_deleted, func_state, runs, returns,
                   raises, handler_calls, quit_calls, quit_requested>>
    /\ emitted' =
          IF Followed(thread_cfg, sig, runs, 1).run # 0
          THEN Append(emitted, Followed(thread_cfg, sig, runs, signals_emitted'))
          ELSE emitted
    /\ main_args' =
          IF thread_cfg[sig]
          THEN Append(main_args,
                      Followed(thread_cfg, sig, runs, signals_emitted'))
          ELSE main_args
    /\ UNCHANGED handled
    /\ UNCHANGED <<buildVars, settingsVars, buttonVars, moreVars, following>>

\* ThreadObject.run: the function returns and finished is emitted
func_return ==
    /\ func_state = "executing"
    /\ func_state' = "idle"
    /\ returns' = returns + 1
    /\ main_queue' = main_queue \o MainSlots(worker_finished_slots(thread_cfg))
    /\ worker_queue' =
          worker_queue \o WorkerSlots(worker_finished_slots(thread_cfg))
    /\ UNCHANGED <<thread_cfg, thread_state, trigger_returned, trigger_emits,
                   worker_deleted, signals_emitted, runs, raises,
                   handler_calls, quit_calls, quit_requested>>
    /\ emitted' =
          IF Followed(thread_cfg, "finished", runs, 0).run # 0
          THEN Append(emitted, Followed(thread_cfg, "finished", runs, 0))
          ELSE emitted
    /\ main_args' =
          main_args
              \o [i \in 1..Len(MainSlots(worker_finished_slots(thread_cfg))) |->
                    Followed(thread_cfg, "finished", runs, 0)]
    /\ UNCHANGED handled
    /\ UNCHANGED <<buildVars, settingsVars, buttonVars, moreVars, following>>

\* ThreadObject.run emitting finished although the function raised
func_raise_emits_finished ==
    /\ func_state = "executing"
    /\ func_state' = "idle"
    /\ raises' = raises + 1
    /\ main_queue' = main_queue \o MainSlots(worker_finished_slots(thread_cfg))
    /\ worker_queue' =
          worker_queue \o WorkerSlots(worker_finished_slots(thread_cfg))
    /\ emitted' =
          IF Followed(thread_cfg, "finished", runs, 0).run # 0
          THEN Append(emitted, Followed(thread_cfg, "finished", runs, 0))
          ELSE emitted
    /\ main_args' =
          main_args
              \o [i \in 1..Len(MainSlots(worker_finished_slots(thread_cfg))) |->
                    Followed(thread_cfg, "finished", runs, 0)]
    /\ UNCHANGED <<thread_cfg, thread_state, trigger_returned, trigger_emits,
                   worker_deleted, signals_emitted, runs, returns,
                   handler_calls, quit_calls, quit_requested, handled>>
    /\ UNCHANGED <<buildVars, settingsVars, buttonVars, moreVars, following>>

\* ThreadObject.run: the function raises, finished.emit() is not reached
func_raise ==
    /\ func_state = "executing"
    /\ func_state' = "idle"
    /\ raises' = raises + 1
    /\ UNCHANGED <<thread_cfg, thread_state, trigger_returned, trigger_emits,
                   worker_queue, worker_deleted, signals_emitted, runs,
                   returns, main_queue, handler_calls, quit_calls,
                   quit_requested>>
    /\ UNCHANGED traceVars
    /\ UNCHANGED <<buildVars, settingsVars, buttonVars, moreVars, following>>

\* the event loop of the interactive thread handles its oldest event
main_event ==
    /\ main_queue # <<>>
    /\ main_queue' = Tail(main_queue)
    /\ LET e == Head(main_queue) IN
       /\ quit_calls' = IF e = "thread.quit" THEN quit_calls + 1 ELSE quit_calls
       /\ quit_requested' = (quit_requested \/ e = "thread.quit")
       /\ handler_calls' =
             IF e \in DOMAIN handler_calls
             THEN [handler_calls EXCEPT ![e] = @ + 1] ELSE handler_calls
       /\ thread_state' =
             IF e = "thread.deleteLater" THEN "deleted" ELSE thread_state
    /\ UNCHANGED <<thread_cfg, trigger_returned, trigger_emits, worker_queue,
                   worker_deleted, func_state, signals_emitted, runs, returns,
                   raises>>
    /\ main_args' = Tail(main_args)
    /\ handled' =
          IF Head(main_queue) \in DOMAIN handler_calls /\ Head(main_args).run # 0
          THEN Append(handled, Head(main_args)) ELSE handled
    /\ UNCHANGED emitted
    /\ UNCHANGED <<buildVars, settingsVars, buttonVars, moreVars, following>>

\* the thread's event loop exits: the deletions still posted to the thread
\* are carried out, the other events dropped, and thread.finished is emitted
thread_finished ==
    /\ thread_state = "running"
    /\ func_state = "idle"
    /\ quit_requested
    /\ thread_state' = "finished"
    /\ worker_deleted' =
          (worker_deleted
              \/ \E i \in 1..Len(worker_queue) : worker_queue[i] # "run")
    /\ worker_queue' = <<>>
    /\ main_queue' = Append(main_queue, "thread.deleteLater")
    /\ UNCHANGED <<thread_cfg, trigger_returned, trigger_emits, func_state,
                   signals_emitted, runs, returns, raises, handler_calls,
                   quit_calls, quit_requested>>
    /\ main_args' = Append(main_args, Emission("thread.finished", 0, 0))
    /\ UNCHANGED <<emitted, handled>>
    /\ UNCHANGED <<buildVars, settingsVars, buttonVars, moreVars, following>>

NextThread ==
    \/ \E cfg \in ThreadConfigs : exec_in_thread(cfg)
    \/ thread_started
    \/ start_emit
    \/ worker_event
    \/ \E sig \in {"result", "update_splash"} : func_emit(sig)
    \/ func_return
    \/ func_raise
    \/ main_event
    \/ thread_finished

SpecThread == Init /\ [][NextThread]_vars

\* exec_in_thread was called with a completion handler only
OnlyFinishedHandler ==
    /\ thread_state # "none"
    /\ thread_cfg.finished
    /\ ~thread_cfg.result
    /\ ~thread_cfg.update_splash

\* nothing is posted to the interactive thread and the function is not
\* executing
Settled == main_queue = <<>> /\ func_state = "idle"

C7_DeferredStart ==
    thread_state # "none" =>
        IF thread_cfg.start_later
        THEN /\ trigger_returned
             /\ runs <= trigger_emits
        ELSE /\ ~trigger_returned
             /\ trigger_emits = 0
             /\ thread_state # "starting" => runs = 1

\* the thread of a deferred call is running and the function has not been
\* executed, the trigger not having been emitted
C7_Witness ==
    /\ thread_cfg.start_later
    /\ trigger_returned
    /\ thread_state = "running"
    /\ trigger_emits = 0
    /\ runs = 0
    /\ func_state = "idle"

(***************************************************************************)
(* SpecButton: one ItemButton of the default size.                         *)
(***************************************************************************)
\* ItemButton.__init__(width=49, ...): self.width()
ItemButton_width == 49

\* ItemButton.__init__(..., height=64, ...): self.height()
ItemButton_height == 64

MouseButtons == {"LeftButton", "RightButton", "MiddleButton"}

\* local positions of a release: before, on and behind each edge
ReleaseX == {-1, 0, ItemButton_width - 1, ItemButton_width}

ReleaseY == {-1, 0, ItemButton_height - 1, ItemButton_height}

\* the images a button is given
Images == {"phaser.png"}

\* the position lies in the button's bounding box
InBounds(x, y) ==
    /\ 0 <= x /\ x < ItemButton_width
    /\ 0 <= y /\ y < ItemButton_height

\* mouseReleaseEvent emitting clicked for the right button as well
release_signals_right_clicks(button, x, y) ==
    IF button \in {"LeftButton", "RightButton"}
          /\ x < ItemButton_width /\ y < ItemButton_height
    THEN [clicked |-> 1, rightclicked |-> 0]
    ELSE [clicked |-> 0, rightclicked |-> 0]

\* the signals mouseReleaseEvent emits
release_signals(button, x, y) ==
    IF button = "LeftButton" /\ x < ItemButton_width /\ y < ItemButton_height
    THEN [clicked |-> 1, rightclicked |-> 0]
    ELSE IF button = "RightButton"
               /\ x < ItemButton_width /\ y < ItemButton_height
         THEN [clicked |-> 0, rightclicked |-> 1]
         ELSE [clicked |-> 0, rightclicked |-> 0]

\* enterEvent showing the tooltip whatever its text
tooltip_after_enter_always(text, visible) == TRUE

\* enterEvent: the tooltip is shown if its text is not empty
tooltip_after_enter(text, visible) == IF text # "" THEN TRUE ELSE visible

mouseReleaseEvent(button, x, y) ==
    /\ button_event' =
          Handled("release", button, x, y,
                  release_signals(button, x, y).clicked,
                  release_signals(button, x, y).rightclicked)
    /\ UNCHANGED <<tooltip_text, tooltip_visible, hovered, item_base,
                   item_overlay>>
    /\ UNCHANGED <<buildVars, settingsVars, threadVars, moreVars>>

enterEvent ==
    /\ ~hovered
    /\ hovered' = TRUE
    /\ tooltip_visible' = tooltip_after_enter(tooltip_text, tooltip_visible)
    /\ button_event' = Handled("enter", "", 0, 0, 0, 0)
    /\ UNCHANGED <<tooltip_text, item_base, item_overlay>>
    /\ UNCHANGED <<buildVars, settingsVars, threadVars, moreVars>>

leaveEvent ==
    /\ hovered
    /\ hovered' = FALSE
    /\ tooltip_visible' = FALSE
    /\ button_event' = Handled("leave", "", 0, 0, 0, 0)
    /\ UNCHANGED <<tooltip_text, item_base, item_overlay>>
    /\ UNCHANGED <<buildVars, settingsVars, threadVars, moreVars>>

\* the tooltip property's setter
tooltip_setter(new_tooltip) ==
    /\ tooltip_text' = new_tooltip
    /\ button_event' = Handled("tooltip", "", 0, 0, 0, 0)
    /\ UNCHANGED <<tooltip_visible, hovered, item_base, item_overlay>>
    /\ UNCHANGED <<buildVars, settingsVars, threadVars, moreVars>>

set_item(image) ==
    /\ item_base' = image
    /\ button_event' = Handled("set_item", "", 0, 0, 0, 0)
    /\ UNCHANGED <<tooltip_text, tooltip_visible, hovered, item_overlay>>
    /\ UNCHANGED <<buildVars, settingsVars, threadVars, moreVars>>

set_overlay(image) ==
    /\ item_overlay' = image
    /\ button_event' = Handled("set_overlay", "", 0, 0, 0, 0)
    /\ UNCHANGED <<tooltip_text, tooltip_visible, hovered, item_base>>
    /\ UNCHANGED <<buildVars, settingsVars, threadVars, moreVars>>

\* set_item_overlay resetting the tooltip text as well
set_item_overlay_clears_tooltip(item_image, overlay_image) ==
    /\ item_base' = item_image
    /\ item_overlay' = overlay_image
    /\ tooltip_text' = ""
    /\ button_event' = Handled("set_item_overlay", "", 0, 0, 0, 0)
    /\ UNCHANGED <<tooltip_visible, hovered>>
    /\ UNCHANGED <<buildVars, settingsVars, threadVars, moreVars>>

set_item_overlay(item_image, overlay_image) ==
    /\ item_base' = item_image
    /\ item_overlay' = overlay_image
    /\ button_event' = Handled("set_item_overlay", "", 0, 0, 0, 0)
    /\ UNCHANGED <<tooltip_text, tooltip_visible, hovered>>
    /\ UNCHANGED <<buildVars, settingsVars, threadVars, moreVars>>

set_item_full(item_image, overlay_image, tooltip) ==
    /\ item_base' = item_image
    /\ item_overlay' = overlay_image
    /\ tooltip_text' = tooltip
    /\ button_event' = Handled("set_item_full", "", 0, 0, 0, 0)
    /\ UNCHANGED <<tooltip_visible, hovered>>
    /\ UNCHANGED <<buildVars, settingsVars, threadVars, moreVars>>

\* ItemButton.clear
clear ==
    /\ item_base' = "None"
    /\ item_overlay' = "None"
    /\ tooltip_text' = ""
    /\ button_event' = Handled("clear", "", 0, 0, 0, 0)
    /\ UNCHANGED <<tooltip_visible, hovered>>
    /\ UNCHANGED <<buildVars, settingsVars, threadVars, moreVars>>

clear_item ==
    /\ item_base' = "None"
    /\ button_event' = Handled("clear_item", "", 0, 0, 0, 0)
    /\ UNCHANGED <<tooltip_text, tooltip_visible, hovered, item_overlay>>
    /\ UNCHANGED <<buildVars, settingsVars, threadVars, moreVars>>

clear_overlay ==
    /\ item_overlay' = "None"
    /\ button_event' = Handled("clear_overlay", "", 0, 0, 0, 0)
    /\ UNCHANGED <<tooltip_text, tooltip_visible, hovered, item_base>>
    /\ UNCHANGED <<buildVars, settingsVars, threadVars, moreVars>>

NextButton ==
    \/ \E b \in MouseButtons, x \in ReleaseX, y \in ReleaseY :
          mouseReleaseEvent(b, x, y)
    \/ enterEvent
    \/ leaveEvent
    \/ \E text \in Texts : tooltip_setter(text)
    \/ \E i \in Images : set_item(i)
    \/ \E i \in Images : set_overlay(i)
    \/ \E i \in Images, o \in Images : set_item_overlay(i, o)
    \/ \E i \in Images, o \in Images, text \in Texts : set_item_full(i, o, text)
    \/ clear
    \/ clear_item
    \/ clear_overlay

SpecButton == Init /\ [][NextButton]_vars

(***************************************************************************)
(* C8: a release of the left mouse button at a position in the button's    *)
(* bounds emits clicked once and rightclicked not at all; a release of     *)
(* the right mouse button there emits rightclicked once and clicked not    *)
(* at all.                                                                 *)
(***************************************************************************)
C8_ReleaseInsideEmitsOne ==
    (button_event.ev = "release" /\ InBounds(button_event.x, button_event.y)) =>
        /\ button_event.button = "LeftButton" =>
              button_event.clicked = 1 /\ button_event.rightclicked = 0
        /\ button_event.button = "RightButton" =>
              button_event.rightclicked = 1 /\ button_event.clicked = 0

\* the right button was released on the button's last pixel
C8_Witness ==
    /\ button_event.ev = "release"
    /\ button_event.button = "RightButton"
    /\ button_event.x = ItemButton_width - 1
    /\ button_event.y = ItemButton_height - 1
    /\ button_event.rightclicked = 1
    /\ button_event.clicked = 0

(***************************************************************************)
(* C9: a release of a mouse button at a position outside the button's      *)
(* bounding box, on whichever side, emits neither clicked nor              *)
(* rightclicked.                                                           *)
(***************************************************************************)
C9_ReleaseOutsideEmitsNone ==
    (button_event.ev = "release" /\ ~InBounds(button_event.x, button_event.y)) =>
        button_event.clicked = 0 /\ button_event.rightclicked = 0

\* the left button was released left of the button and clicked was emitted
C9_Witness ==
    /\ button_event.ev = "release"
    /\ button_event.button = "LeftButton"
    /\ button_event.x = -1
    /\ button_event.y = 0
    /\ button_event.clicked = 1

(***************************************************************************)
(* C10: when the pointer has entered the button the tooltip is shown if    *)
(* its text is not empty and is not shown if its text is empty; when the   *)
(* pointer has left the button the tooltip is hidden, whatever its text.   *)
(***************************************************************************)
C10_TooltipOnHover ==
    /\ button_event.ev = "enter" => (tooltip_visible <=> tooltip_text # "")
    /\ button_event.ev = "leave" => ~tooltip_visible

\* the pointer entered a button without tooltip text that holds an item
C10_Witness ==
    /\ button_event.ev = "enter"
    /\ hovered
    /\ tooltip_text = ""
    /\ ~tooltip_visible
    /\ item_base # "None"

(***************************************************************************)
(* SpecSnapshot: snapshot.py run on a host, statement by statement.  A     *)
(* probe that raises in a try statement continues in its except clause; a  *)
(* probe that raises outside one ends the script.                          *)
(***************************************************************************)
\* the probe raised: the except clause's assignments, or the script's end
Raised(probe, next_pc) ==
    IF probe \in try_blocks
    THEN /\ snap' = Assign(snap, except_values(probe))
         /\ snap_pc' = next_pc
    ELSE /\ snap_pc' = "aborted"
         /\ UNCHANGED snap

\* lines 8-13
probe_build ==
    /\ snap_pc = "build"
    /\ IF host.build = <<>>
       THEN Raised("build", "tkinter")
       ELSE /\ snap' = Assign(snap,
                  [build |-> host.build,
                   release |-> release_inferred(host.system, snap.release,
                                                host.build[1])])
            /\ snap_pc' = "tkinter"
    /\ UNCHANGED <<host, printed>>
    /\ UNCHANGED <<buildVars, settingsVars, widgetVars, shellVars, imageVars,
                   restVars>>

\* lines 15-26
probe_tkinter ==
    /\ snap_pc = "tkinter"
    /\ IF host.tkinter # "ok"
       THEN Raised("tkinter", "distribution")
       ELSE /\ snap' = Assign(snap,
                  [tkinter_version |-> "8.6.13",
                   tk_screen_geometry |-> "1920x1080",
                   dpi |-> "96.0", factor |-> "1.0"])
            /\ snap_pc' = "distribution"
    /\ UNCHANGED <<host, printed>>
    /\ UNCHANGED <<buildVars, settingsVars, widgetVars, shellVars, imageVars,
                   restVars>>

\* lines 28-37
probe_distribution ==
    /\ snap_pc = "distribution"
    /\ IF host.os_release # "ok"
       THEN Raised("distribution", "os_text")
       ELSE /\ snap' = Assign(snap, [distribution |-> "Debian 12"])
            /\ snap_pc' = "os_text"
    /\ UNCHANGED <<host, printed>>
    /\ UNCHANGED <<buildVars, settingsVars, widgetVars, shellVars, imageVars,
                   restVars>>

\* lines 39-43
format_os_text ==
    /\ snap_pc = "os_text"
    /\ snap' = Assign(snap,
          [os_text |-> [system |-> host.system,
                        release |-> format(snap.release),
                        build |-> snap.build,
                        distribution |-> snap.distribution]])
    /\ snap_pc' = "PIL"
    /\ UNCHANGED <<host, printed>>
    /\ UNCHANGED <<buildVars, settingsVars, widgetVars, shellVars, imageVars,
                   restVars>>

\* lines 45-49
probe_PIL ==
    /\ snap_pc = "PIL"
    /\ IF host.PIL # "ok"
       THEN Raised("PIL", "numpy")
       ELSE /\ snap' = Assign(snap, [PIL_version |-> "10.2.0"])
            /\ snap_pc' = "numpy"
    /\ UNCHANGED <<host, printed>>
    /\ UNCHANGED <<buildVars, settingsVars, widgetVars, shellVars, imageVars,
                   restVars>>

\* lines 51-55
probe_numpy ==
    /\ snap_pc = "numpy"
    /\ IF host.numpy # "ok"
       THEN Raised("numpy", "print")
       ELSE /\ snap' = Assign(snap, [numpy_version |-> "1.26.4"])
            /\ snap_pc' = "print"
    /\ UNCHANGED <<host, printed>>
    /\ UNCHANGED <<buildVars, settingsVars, widgetVars, shellVars, imageVars,
                   restVars>>

\* lines 57-82: a row for each entry of snapshot, then the modules line
print_report ==
    /\ snap_pc = "print"
    /\ printed' =
          <<[label |-> "python", value |-> <<"3.12.1">>],
            [label |-> "OS", value |-> snap.os_text],
            [label |-> "screen-dpi",
             value |-> <<snap.tk_screen_geometry, snap.dpi, snap.factor>>],
            [label |-> "modules",
             value |-> <<<<"tkinter", snap.tkinter_version>>,
                         <<"Pillow", snap.PIL_version>>,
                         <<"numpy", snap.numpy_version>>>>]>>
    /\ snap_pc' = "done"
    /\ UNCHANGED <<host, snap>>
    /\ UNCHANGED <<buildVars, settingsVars, widgetVars, shellVars, imageVars,
                   restVars>>

NextSnapshot ==
    \/ probe_build
    \/ probe_tkinter
    \/ probe_distribution
    \/ format_os_text
    \/ probe_PIL
    \/ probe_numpy
    \/ print_report

InitHosts ==
    /\ InitBuild /\ InitSettings /\ InitWidgets /\ InitShell /\ InitImage
    /\ InitRest
    /\ \E h \in Hosts : InitSnapshot(h)

\* the script runs on until it ends
SpecSnapshot == InitHosts /\ [][NextSnapshot]_vars /\ WF_vars(NextSnapshot)

\* the build probe succeeded on the host with a Windows 11 build number
Windows11Host ==
    /\ host.system = "Windows"
    /\ host.release = "10"
    /\ host.build # <<>>
    /\ host.build[1] >= Win11Build

(***************************************************************************)
(* C11: on a host with family "Windows", release "10" as the platform      *)
(* reports it (a str) and a build number of 22000 or more, the release     *)
(* the utility holds after the build probe, and the release of the OS row  *)
(* it prints, is 11.                                                       *)
(***************************************************************************)
C11_Windows11Inferred ==
    Windows11Host =>
        /\ snap_pc # "build" => format(snap.release) = "11"
        /\ snap_pc = "done" => printed[2].value.release = "11"

\* the report of a Windows host with release "10" and build 22000 was
\* printed with release 10
C11_Witness ==
    /\ Windows11Host
    /\ host.build = <<Win11Build>>
    /\ snap_pc = "done"
    /\ printed[2].label = "OS"
    /\ printed[2].value.release = "10"
    /\ printed[2].value.build = <<Win11Build>>

(***************************************************************************)
(* C12: the release stays exactly as the platform reported it whenever     *)
(* the build number is below 22000, whenever the family is not "Windows"   *)
(* whatever the build number, and whenever there is no build number; the   *)
(* OS row printed carries that release.                                    *)
(***************************************************************************)
C12_ReleaseKept ==
    (\/ host.build = <<>>
     \/ host.system # "Windows"
     \/ host.build # <<>> /\ host.build[1] < Win11Build) =>
        /\ snap.release = Str(host.release)
        /\ snap_pc = "done" => printed[2].value.release = host.release

\* the report of a Windows host with release "10" and build 21999 was
\* printed with release 10
C12_Witness ==
    /\ host.system = "Windows"
    /\ host.release = "10"
    /\ host.build = <<Win11Build - 1>>
    /\ snap_pc = "done"
    /\ snap.build = <<Win11Build - 1>>
    /\ printed[2].value.release = "10"

\* the report is complete: the rows python, OS and screen-dpi and the
\* modules line with the three libraries
CompleteReport ==
    /\ Len(printed) = 4
    /\ printed[1].label = "python"
    /\ printed[2].label = "OS"
    /\ printed[3].label = "screen-dpi"
    /\ printed[4].label = "modules"
    /\ Len(printed[4].value) = 3
    /\ printed[4].value[1][1] = "tkinter"
    /\ printed[4].value[2][1] = "Pillow"
    /\ printed[4].value[3][1] = "numpy"

(***************************************************************************)
(* C13: whichever of the probes (build number, GUI toolkit or display,     *)
(* distribution file, image library, numeric library) fail, the script is  *)
(* never ended by a probe, it reaches its end, and at its end the          *)
(* complete report is printed.                                             *)
(***************************************************************************)
C13_ReportAlwaysComplete ==
    /\ [](snap_pc # "aborted")
    /\ [](snap_pc = "done" => CompleteReport)
    /\ <>(snap_pc = "done")

\* every probe failed and the complete report was printed
C13_Witness ==
    /\ host.build = <<>>
    /\ host.tkinter = "no module"
    /\ host.os_release = "no file"
    /\ host.PIL = "no module"
    /\ host.numpy = "no module"
    /\ snap_pc = "done"
    /\ CompleteReport

(***************************************************************************)
(* C14 as stated: a failed library probe gives 'fail' as the library's     *)
(* version; a failed display probe gives '' for the screen geometry, the   *)
(* DPI and the scaling factor; a failed distribution probe gives ''.       *)
(***************************************************************************)
C14_DisplaySentinelsEmpty ==
    /\ (host.tkinter # "ok" /\ snap_pc \notin {"build", "tkinter"}) =>
          /\ snap.tkinter_version = "fail"
          /\ snap.tk_screen_geometry = ""
          /\ snap.dpi = ""
          /\ snap.factor = ""
    /\ (host.os_release # "ok"
            /\ snap_pc \notin {"build", "tkinter", "distribution"}) =>
          snap.distribution = ""

(***************************************************************************)
(* C14 amended: a failed library probe gives 'fail' as the library's       *)
(* version; a failed display probe gives 'fail' for the toolkit version    *)
(* and for the screen geometry and '' for the DPI and the scaling factor;  *)
(* a failed distribution probe gives ''.                                   *)
(***************************************************************************)
C14_ProbeSentinels ==
    /\ (host.tkinter # "ok" /\ snap_pc \notin {"build", "tkinter"}) =>
          /\ snap.tkinter_version = "fail"
          /\ snap.tk_screen_geometry = "fail"
          /\ snap.dpi = ""
          /\ snap.factor = ""
    /\ (host.os_release # "ok"
            /\ snap_pc \notin {"build", "tkinter", "distribution"}) =>
          snap.distribution = ""
    /\ (host.PIL # "ok" /\ snap_pc \in {"numpy", "print", "done"}) =>
          snap.PIL_version = "fail"
    /\ (host.numpy # "ok" /\ snap_pc \in {"print", "done"}) =>
          snap.numpy_version = "fail"

\* the display probe failed with the toolkit present, the other probes
\* succeeded, and the screen-dpi row was printed with fail
C14_Witness ==
    /\ host.tkinter = "no display"
    /\ host.PIL = "ok"
    /\ snap_pc = "done"
    /\ printed[3].value = <<"fail", "", "">>
    /\ printed[4].value[1] = <<"tkinter", "fail">>
    /\ printed[4].value[2] = <<"Pillow", "10.2.0">>

(***************************************************************************)
(* SpecShell: runs of the application: construction, edits of the ship     *)
(* frame, the tab buttons of the menu, the close of the main window, and   *)
(* the autosave file deleted between runs.                                 *)
(***************************************************************************)
\* QTabWidget.setCurrentIndex(index) on a tabber with the panes names
setCurrentIndex(names, current, index) ==
    IF index \in 0..(Len(names) - 1) THEN index ELSE current

\* switch_main_tab(index): the build tabber and the sidebar tabber are set
\* to the index
switch_main_tab(index, op) ==
    /\ running
    /\ build_tabber' = setCurrentIndex(build_tab_names, build_tabber, index)
    /\ sidebar_tabber' =
          setCurrentIndex(sidebar_tab_names, sidebar_tabber, index)
    /\ tab_event' = TabEvent(op, index)
    /\ UNCHANGED <<call_log, autosave_exists, backend>>
    /\ UNCHANGED <<buildVars, settingsVars, widgetVars, snapshotVars>>
    /\ UNCHANGED <<imageVars, restVars>>

\* a tab button of the menu row pressed
menu_button(label) == switch_main_tab(tab_button_index[label], label)

\* between runs the user deletes the autosave file
delete_autosave_file ==
    /\ ~running
    /\ autosave_exists
    /\ autosave_exists' = FALSE
    /\ UNCHANGED <<build_tabber, sidebar_tabber, tab_event, call_log, backend>>
    /\ UNCHANGED <<buildVars, settingsVars, widgetVars, snapshotVars>>
    /\ UNCHANGED <<imageVars, restVars>>

NextShell ==
    \/ SETS_init
    \/ \E g \in Geometries : main_window_close_callback(g)
    \/ delete_autosave_file
    \/ \E text \in Texts : running /\ name_entry_editingFinished(text)
    \/ \E text \in Texts : running /\ desc_edit_textChanged(text)
    \/ \E i \in 0..(Len(build_tab_names) - 1) :
          switch_main_tab(i, "switch_main_tab")
    \/ \E l \in TabButtons : menu_button(l)

SpecShell == Init /\ [][NextShell]_vars

(***************************************************************************)
(* C15: after switch main tab with an index i of 0..5 the build tabber     *)
(* and the sidebar tabber both show their i-th pane, the panes being, in   *)
(* the order of construction, space, ground, space skills, ground skills,  *)
(* library or empty, settings; each tabber shows one pane only.  The menu  *)
(* buttons SPACE, GROUND, SPACE SKILLS, GROUND SKILLS and Settings pass    *)
(* the indices 0, 1, 2, 3 and 5.                                           *)
(***************************************************************************)
C15_TabSwitchMapping ==
    /\ build_tab_names =
          <<"space_build", "ground_build", "space_skills", "ground_skills",
            "library", "settings">>
    /\ sidebar_tab_names =
          <<"space", "ground", "space_skills", "ground_skills", "empty",
            "settings">>
    /\ build_tabber \in 0..5 /\ sidebar_tabber \in 0..5
    /\ tab_event.op # "init" =>
          /\ tab_event.index \in 0..5
          /\ build_tabber = tab_event.index
          /\ sidebar_tabber = tab_event.index
    /\ tab_event.op = "SPACE" => build_tab_names[build_tabber + 1] = "space_build"
    /\ tab_event.op = "GROUND" => build_tab_names[build_tabber + 1] = "ground_build"
    /\ tab_event.op = "SPACE SKILLS" =>
          build_tab_names[build_tabber + 1] = "space_skills"
    /\ tab_event.op = "GROUND SKILLS" =>
          build_tab_names[build_tabber + 1] = "ground_skills"
    /\ tab_event.op = "Settings" =>
          /\ tab_event.index = 5
          /\ build_tab_names[build_tabber + 1] = "settings"
          /\ sidebar_tab_names[sidebar_tabber + 1] = "settings"

\* the Settings button was pressed while the ship has a name
C15_Witness ==
    /\ tab_event = TabEvent("Settings", 5)
    /\ build_tabber = 5
    /\ sidebar_tabber = 5
    /\ build.space.ship_name = Str("a")

(***************************************************************************)
(* C17: when the main window has been closed, the geometry was written to  *)
(* the settings and the build was autosaved before the close event was     *)
(* accepted: the settings hold the geometry, the autosave file holds the   *)
(* live build, and the event was accepted after both calls.                *)
(***************************************************************************)
C17_CloseSavesBeforeAccept ==
    last.op = "close" =>
        /\ Before(call_log, "settings.setValue", "event.accept")
        /\ Before(call_log, "autosave", "event.accept")
        /\ call_log[Len(call_log)] = "event.accept"
        /\ settings.geometry = <<last.value>>
        /\ autosave_file = store_json(build)
        /\ ~running

\* the window was closed with a ship description that no edit had autosaved
C17_Witness ==
    /\ last.op = "close"
    /\ build.space.ship_desc = Str("b")
    /\ autosave_file.space.ship_desc = json_dumps(Str("b"))
    /\ settings.geometry = <<QByteArray("g2")>>
    /\ settings_file.geometry = <<QByteArray("g2")>>

(***************************************************************************)
(* C18: when a run starts, the preparation of the environment writes the   *)
(* empty build to the autosave path if and only if no file exists there;   *)
(* a file that exists is left as it is.                                    *)
(***************************************************************************)
C18_AutosaveSeededIffAbsent ==
    [][(~running /\ running') =>
          /\ last'.autosaved <=> ~autosave_exists
          /\ autosave_exists => autosave_file' = autosave_file
          /\ ~autosave_exists => autosave_file' = store_json(empty_build)
          /\ autosave_exists']_vars

\* a run started on the autosave file of an earlier run, which holds a
\* ship name
C18_Witness ==
    /\ last.op = "launch"
    /\ ~last.autosaved
    /\ autosave_exists
    /\ autosave_file.space.ship_name = json_dumps(Str("a"))
    /\ build = empty_build

\* the order of the calls of a construction
InitOrder(log) ==
    /\ Before(log, "init_settings", "init_config")
    /\ Before(log, "init_config", "prepare_tooltip_css")
    /\ Before(log, "prepare_tooltip_css", "init_environment")
    /\ Before(log, "init_environment", "create_main_window")
    /\ Before(log, "create_main_window", "empty_build")
    /\ \A c \in {setup_main_layout_calls[i] : i \in 1..Len(setup_main_layout_calls)} :
          /\ Before(log, "empty_build", c)
          /\ \A w \in {"Picker", "ItemEditor", "ShipSelector"} : Before(log, c, w)
    /\ \A w \in {"Picker", "ItemEditor", "ShipSelector"} :
          Before(log, w, "create_context_menu")
    /\ Before(log, "create_context_menu", "window.show")
    /\ Before(log, "window.show", "init_backend")
    /\ log[Len(log)] = "init_backend"

(***************************************************************************)
(* C19: every construction of the shell makes its calls in this order:     *)
(* settings, config, tooltip style, environment, main window, empty        *)
(* build, the layout tree, the three sub-windows, the context menu, the    *)
(* window shown, and last the start of the backend initialization.         *)
(***************************************************************************)
C19_ConstructionOrder == running => InitOrder(call_log)

\* a second run was constructed, on the geometry the first run stored
C19_Witness ==
    /\ running
    /\ last.op = "launch"
    /\ settings.geometry = <<QByteArray("g1")>>
    /\ call_log[Len(call_log) - 1] = "window.show"
    /\ call_log[Len(call_log)] = "init_backend"

(***************************************************************************)
(* C20: in every construction of the shell cache_skills is called, and     *)
(* has returned, before the space skill panel, the ground skill panel and  *)
(* each of the three sub-windows is constructed.                           *)
(***************************************************************************)
C20_SkillsCachedFirst ==
    running =>
        \A c \in {"setup_space_skill_frame", "setup_ground_skill_frame",
                  "Picker", "ItemEditor", "ShipSelector"} :
            Before(call_log, "cache_skills", c)

\* a run was constructed on an autosave file that had to be written anew:
\* cache_skills directly before the space skill panel
C20_Witness ==
    /\ running
    /\ last.op = "launch"
    /\ last.autosaved
    /\ \E i \in 1..(Len(call_log) - 1) :
          /\ call_log[i] = "cache_skills"
          /\ call_log[i + 1] = "setup_space_skill_frame"

(***************************************************************************)
(* SpecImage: an ImageLabel constructed, given images, resized by its      *)
(* layout and painted.                                                     *)
(***************************************************************************)
set_image(p) ==
    /\ image_p' = p
    /\ image_w' = p.width
    /\ image_h' = p.height
    /\ image_event' = ImageCalled("set_image", FALSE)
    /\ UNCHANGED <<image_width, image_drawn, image_fixed_height>>
    /\ UNCHANGED <<buildVars, settingsVars, widgetVars, snapshotVars, shellVars>>
    /\ UNCHANGED restVars

\* the layout gives the widget another width
resizeEvent(width) ==
    /\ width # image_width
    /\ image_width' = width
    /\ image_event' = ImageCalled("resizeEvent", FALSE)
    /\ UNCHANGED <<image_p, image_w, image_h, image_drawn, image_fixed_height>>
    /\ UNCHANGED <<buildVars, settingsVars, widgetVars, snapshotVars, shellVars>>
    /\ UNCHANGED restVars

\* paintEvent: nothing for the null image; ZeroDivisionError for _w = 0
paintEvent ==
    /\ IF isNull(image_p)
       THEN /\ image_event' = ImageCalled("paintEvent", FALSE)
            /\ UNCHANGED <<image_drawn, image_fixed_height>>
       ELSE IF image_w = 0
       THEN /\ image_event' = ImageCalled("paintEvent", TRUE)
            /\ UNCHANGED <<image_drawn, image_fixed_height>>
       ELSE /\ image_drawn' =
                  <<QRect(0, 0, image_width,
                          int_truediv(image_width * image_h, image_w))>>
            /\ image_fixed_height' =
                  <<int_truediv(image_width * image_h, image_w)>>
            /\ image_event' = ImageCalled("paintEvent", FALSE)
    /\ UNCHANGED <<image_p, image_w, image_h, image_width>>
    /\ UNCHANGED <<buildVars, settingsVars, widgetVars, snapshotVars, shellVars>>
    /\ UNCHANGED restVars

NextImage ==
    \/ \E p \in QImages : set_image(p)
    \/ \E width \in 0..MaxWidth : resizeEvent(width)
    \/ paintEvent

\* an ImageLabel constructed with any path and any aspect ratio
InitLabels ==
    /\ InitBuild /\ InitSettings /\ InitWidgets /\ InitShell /\ InitRest
    /\ InitSnapshot(some_host)
    /\ \E p \in QImages, aspect_w \in 0..MaxSide, aspect_h \in 0..MaxSide :
          ImageLabel_init(p, aspect_w, aspect_h)

SpecImage == InitLabels /\ [][NextImage]_vars

(***************************************************************************)
(* C16: when the ImageLabel has painted a loaded image with the aspect     *)
(* ratio (W, H) at the widget width Cw, the image was drawn at the height  *)
(* Cw * H / W rounded down to an integer, and the height of the widget     *)
(* was fixed to that height.                                               *)
(***************************************************************************)
C16_PaintedHeightFloored ==
    (image_event = ImageCalled("paintEvent", FALSE) /\ ~isNull(image_p)) =>
        /\ image_w > 0
        /\ \E height \in 0..(image_width * image_h) :
              /\ height * image_w <= image_width * image_h
              /\ image_width * image_h < (height + 1) * image_w
              /\ image_drawn = <<QRect(0, 0, image_width, height)>>
              /\ image_fixed_height = <<height>>

\* an image of the aspect ratio (3, 2) painted at the width 4: 8 / 3 is
\* rounded down to the height 2
C16_Witness ==
    /\ image_event = ImageCalled("paintEvent", FALSE)
    /\ ~isNull(image_p)
    /\ image_w = 3 /\ image_h = 2 /\ image_width = 4
    /\ image_drawn = <<QRect(0, 0, 4, 2)>>
    /\ image_fixed_height = <<2>>

(***************************************************************************)
(* SpecBackend: runs of the application with the backend initialization    *)
(* in flight: the user's operations on the build, the menu and the         *)
(* window, and the background task coming to its end.                      *)
(***************************************************************************)
\* the backend initialization task finished and its worker was disposed
backend_finished ==
    /\ running
    /\ backend.workers > 0
    /\ backend' = [backend EXCEPT !.workers = @ - 1]
    /\ UNCHANGED <<build_tabber, sidebar_tabber, tab_event, call_log,
                   autosave_exists>>
    /\ UNCHANGED <<buildVars, settingsVars, widgetVars, snapshotVars>>
    /\ UNCHANGED <<imageVars, restVars>>

NextBackend ==
    \/ SETS_init
    \/ \E g \in Geometries : main_window_close_callback(g)
    \/ backend_finished
    \/ \E text \in Texts : running /\ name_entry_editingFinished(text)
    \/ \E b \in DOMAIN left_button_group : running /\ Press(b)
    \/ \E l \in TabButtons : menu_button(l)

SpecBackend == Init /\ [][NextBackend]_vars

(***************************************************************************)
(* C21: at every moment of a run at most one backend initialization        *)
(* worker exists: the construction of the shell starts the backend         *)
(* initialization exactly once, and no operation of the user starts        *)
(* another one.                                                            *)
(***************************************************************************)
C21_OneBackendWorker ==
    /\ backend.workers <= 1
    /\ backend.workers <= backend.starts
    /\ running => backend.starts = 1
    /\ ~running => backend.workers = 0

\* the user named the ship while the backend initialization was in flight
C21_Witness ==
    /\ running
    /\ backend = [starts |-> 1, workers |-> 1]
    /\ last.op = "ship_name"
    /\ build.space.ship_name = Str("a")

(***************************************************************************)
(* C22: for a background task with a progress handler and a completion     *)
(* handler, the progress handler receives every status message the         *)
(* function emits, in the order emitted and before the completion handler  *)
(* of that execution is invoked, and the completion handler is invoked     *)
(* only after the function has returned: the invocations of the two        *)
(* handlers are at every moment the first of the emissions of              *)
(* update_splash and finished, in their order, and all of them once the    *)
(* posted events are handled.                                              *)
(***************************************************************************)
\* a task with a progress handler and a completion handler and no result
\* handler, its emissions followed
InitFollowed ==
    /\ InitBuild /\ InitSettings /\ InitButton /\ InitShell /\ InitImage
    /\ InitRest
    /\ InitSnapshot(some_host)
    /\ thread_cfg = no_handlers
    /\ thread_state = "none"
    /\ trigger_returned = FALSE
    /\ trigger_emits = 0
    /\ worker_queue = <<>>
    /\ worker_deleted = FALSE
    /\ func_state = "idle"
    /\ signals_emitted = 0
    /\ runs = 0
    /\ returns = 0
    /\ raises = 0
    /\ main_queue = <<>>
    /\ handler_calls = [result |-> 0, update_splash |-> 0, finished |-> 0]
    /\ quit_calls = 0
    /\ quit_requested = FALSE
    /\ main_args = <<>>
    /\ emitted = <<>>
    /\ handled = <<>>
    /\ following = TRUE

NextProgress ==
    \/ \E cfg \in ThreadConfigs :
          /\ cfg.update_splash /\ cfg.finished /\ ~cfg.result
          /\ exec_in_thread(cfg)
    \/ thread_started
    \/ start_emit
    \/ worker_event
    \/ \E sig \in {"result", "update_splash"} : func_emit(sig)
    \/ func_return
    \/ func_raise
    \/ main_event
    \/ thread_finished

SpecProgress == InitFollowed /\ [][NextProgress]_vars

ProgressAndCompletion(log) ==
    SelectSeq(log, LAMBDA e : e.sig \in {"update_splash", "finished"})

C22_ProgressInOrderBeforeCompletion ==
    (thread_state # "none" /\ thread_cfg.update_splash /\ thread_cfg.finished) =>
        LET E == ProgressAndCompletion(emitted)
            H == ProgressAndCompletion(handled)
        IN  /\ Len(H) <= Len(E)
            /\ H = SubSeq(E, 1, Len(H))
            /\ Settled => H = E
            /\ handler_calls.finished <= returns

\* the function emitted two status messages and returned; the progress
\* handler was given both in their order, and then the completion handler
\* was invoked
C22_Witness ==
    /\ thread_cfg.update_splash /\ thread_cfg.finished /\ ~thread_cfg.result
    /\ ~thread_cfg.start_later
    /\ Settled
    /\ handled = <<Emission("update_splash", 1, 1),
                   Emission("update_splash", 1, 2),
                   Emission("finished", 1, 0)>>
    /\ emitted = handled

(***************************************************************************)
(* C26: when the function of a background task raises instead of           *)
(* returning, finished is not emitted: as long as no execution of the      *)
(* function has returned, the completion handler is not invoked,           *)
(* thread.quit is not called, and neither the worker nor the thread is     *)
(* disposed or scheduled for disposal.                                     *)
(***************************************************************************)
C26_RaiseSkipsTeardown ==
    returns = 0 =>
        /\ handler_calls.finished = 0
        /\ quit_calls = 0
        /\ ~quit_requested
        /\ ~worker_deleted
        /\ thread_state \in {"none", "starting", "running"}
        /\ \A i \in 1..Len(main_queue) :
              main_queue[i] \notin {"finished", "thread.quit", "thread.deleteLater"}
        /\ \A i \in 1..Len(worker_queue) : worker_queue[i] = "run"

\* the function raised in its only execution, after a status message; the
\* thread still runs
C26_Witness ==
    /\ raises = 1 /\ runs = 1 /\ returns = 0
    /\ thread_cfg.finished
    /\ ~thread_cfg.start_later
    /\ Settled
    /\ thread_state = "running"
    /\ ~worker_deleted
    /\ handler_calls.finished = 0
    /\ signals_emitted = 1

(***************************************************************************)
(* C23: each content mutation of the ItemButton changes the fields it      *)
(* names and leaves the others as they are: set_item the base image,       *)
(* set_overlay the overlay, set_item_overlay the base and the overlay but  *)
(* not the tooltip text, set_item_full all three; clear_item resets the    *)
(* base only, clear_overlay the overlay only, clear the base, the overlay  *)
(* and the tooltip text.                                                   *)
(***************************************************************************)
C23_MutationFrames ==
    [][/\ button_event'.ev = "set_item" =>
             /\ item_base' \in Images
             /\ item_overlay' = item_overlay /\ tooltip_text' = tooltip_text
       /\ button_event'.ev = "set_overlay" =>
             /\ item_overlay' \in Images
             /\ item_base' = item_base /\ tooltip_text' = tooltip_text
       /\ button_event'.ev = "set_item_overlay" =>
             /\ item_base' \in Images /\ item_overlay' \in Images
             /\ tooltip_text' = tooltip_text
       /\ button_event'.ev = "set_item_full" =>
             /\ item_base' \in Images /\ item_overlay' \in Images
             /\ tooltip_text' \in Texts
       /\ button_event'.ev = "clear_item" =>
             /\ item_base' = "None"
             /\ item_overlay' = item_overlay /\ tooltip_text' = tooltip_text
       /\ button_event'.ev = "clear_overlay" =>
             /\ item_overlay' = "None"
             /\ item_base' = item_base /\ tooltip_text' = tooltip_text
       /\ button_event'.ev = "clear" =>
             /\ item_base' = "None" /\ item_overlay' = "None"
             /\ tooltip_text' = ""]_vars

\* set_item_overlay on a cleared button that has a tooltip text: the base
\* and the overlay are set and the text is kept
C23_Witness ==
    /\ button_event.ev = "set_item_overlay"
    /\ item_base \in Images
    /\ item_overlay \in Images
    /\ tooltip_text = "a"

(***************************************************************************)
(* C27: after any sequence of hover entries, hover exits, tooltip          *)
(* assignments, set_item_full and clear, the tooltip is never visible      *)
(* while its text is empty.                                                *)
(***************************************************************************)
C27_NoEmptyTooltipVisible == tooltip_visible => tooltip_text # ""

\* the button was cleared while the pointer was over it and its tooltip
\* was shown
C27_Witness ==
    /\ button_event.ev = "clear"
    /\ hovered
    /\ tooltip_visible
    /\ tooltip_text = ""

(***************************************************************************)
(* SpecCache: the boff ability caches reset and filled.                    *)
(***************************************************************************)
\* the specializations and ranks abilities are added to
AddSpecs == {"Tactical", "Miracle Worker"}

AddRanks == {1, 2}

\* Cache.reset_cache: the two caches are made anew by two calls of
\* boff_dict; the objects of the caches before are unreachable
reset_cache ==
    /\ cache_calls + 2 <= MaxBoffDicts
    /\ boff_abilities' = reset_cache_boff(cache_calls).boff_abilities
    /\ cache_heap' = reset_cache_boff(cache_calls).heap
    /\ cache_calls' = reset_cache_boff(cache_calls).calls
    /\ cache_event' = CacheCalled("reset_cache", "", "", 0)
    /\ UNCHANGED skillVars
    /\ UNCHANGED <<buildVars, settingsVars, widgetVars, snapshotVars, shellVars,
                   imageVars>>

\* cache.boff_abilities[env][spec][rank][ability] = ...: the key is added
\* to the dict object found there
add_boff_ability(env, spec, rank, ability) ==
    /\ cache_heap' =
          [cache_heap EXCEPT ![boff_abilities[env][spec][rank]] =
              @ \cup {ability}]
    /\ cache_event' = CacheCalled("add", env, spec, rank)
    /\ UNCHANGED <<boff_abilities, cache_calls>>
    /\ UNCHANGED skillVars
    /\ UNCHANGED <<buildVars, settingsVars, widgetVars, snapshotVars, shellVars,
                   imageVars>>

NextCache ==
    \/ reset_cache
    \/ \E env \in BoffEnvs, spec \in AddSpecs, rank \in AddRanks,
          ability \in Abilities :
          add_boff_ability(env, spec, rank, ability)

SpecCache == Init /\ [][NextCache]_vars

\* the keys of the bucket of the cache at env, spec, rank
Bucket(heap, ba, env, spec, rank) == heap[ba[env][spec][rank]]

(***************************************************************************)
(* C24: every call of boff_dict returns a new mapping with the eight       *)
(* specialization names as its keys, each mapped to four empty buckets,    *)
(* and no bucket is shared with another key, another rank or another       *)
(* call; so after a reset of the cache, adding an ability to a bucket of   *)
(* the space cache changes no bucket of the ground cache and no other      *)
(* bucket of the space cache.                                              *)
(***************************************************************************)
C24_FreshBuckets ==
    /\ [](/\ \A env \in BoffEnvs :
              /\ DOMAIN boff_abilities[env] = Specializations
              /\ \A spec \in Specializations :
                    Len(boff_abilities[env][spec]) = 4
          /\ Cardinality(Specializations) = 8
          /\ Cardinality(Buckets(boff_abilities)) = 2 * 8 * 4
          /\ cache_event.op \in {"__init__", "reset_cache"} =>
                \A b \in Buckets(boff_abilities) : cache_heap[b] = {})
    /\ [][/\ cache_event'.op = "reset_cache" =>
                Buckets(boff_abilities') \cap DOMAIN cache_heap = {}
          /\ cache_event'.op = "add" =>
                \A env \in BoffEnvs, spec \in Specializations, rank \in 1..4 :
                    <<env, spec, rank>> #
                        <<cache_event'.env, cache_event'.spec,
                          cache_event'.rank>>
                    => Bucket(cache_heap', boff_abilities', env, spec, rank)
                         = Bucket(cache_heap, boff_abilities, env, spec, rank)
         ]_vars

\* after a reset an ability was added to the first bucket of Tactical in
\* the space cache; the other buckets of Tactical and the bucket of the
\* ground cache are empty
C24_Witness ==
    /\ cache_calls = 4
    /\ cache_event = CacheCalled("add", "space", "Tactical", 1)
    /\ Bucket(cache_heap, boff_abilities, "space", "Tactical", 1)
          = {"Beam Overload"}
    /\ \A rank \in 2..4 :
          Bucket(cache_heap, boff_abilities, "space", "Tactical", rank) = {}
    /\ Bucket(cache_heap, boff_abilities, "ground", "Tactical", 1) = {}

(***************************************************************************)
(* SpecLive: the edit handlers before and after the live build is          *)
(* replaced.                                                               *)
(***************************************************************************)
\* the texts typed into the three fields
LiveTexts == {"a", "b"}

NextLive ==
    \/ \E text \in LiveTexts : name_entry_editingFinished(text)
    \/ \E text \in LiveTexts : desc_edit_textChanged(text)
    \/ \E text \in LiveTexts : char_name_editingFinished(text)
    \/ Press("Save")
    \/ Press("Open")

SpecLive == InitFollowed /\ [][NextLive]_vars

\* the part and key of the build the edit handler writes
EditedField(op) ==
    CASE op = "ship_name" -> <<"space", "ship_name">>
      [] op = "ship_desc" -> <<"space", "ship_desc">>
      [] op = "char_name" -> <<"captain", "name">>

(***************************************************************************)
(* C29: the edit handlers of the ship name, the ship description and the   *)
(* captain name write to the record that is the live build when the        *)
(* signal fires: after the live build is replaced, an edit changes the     *)
(* named field of the new record and leaves the replaced record as it was. *)
(***************************************************************************)
C29_EditsWriteLiveBuild ==
    [][last'.op \in {"ship_name", "ship_desc", "char_name"} =>
         /\ wired_build' = wired_build
         /\ build' = [build EXCEPT ![EditedField(last'.op)[1]]
                                     [EditedField(last'.op)[2]] = last'.value]
      ]_vars

\* the build was replaced, then the ship name edited: the new record has
\* the name, the replaced record has the name it had
C29_Witness ==
    /\ wired_build # <<>>
    /\ last.op = "ship_name"
    /\ build.space.ship_name = Str("b")
    /\ wired_build[1].space.ship_name = Str("a")

(***************************************************************************)
(* SpecSkills: the space skill panel built from the cached skill tree.     *)
(***************************************************************************)
\* a skill tree cached, the panel not built yet
InitSkillTrees ==
    /\ InitBuild /\ InitSettings /\ InitWidgets /\ InitShell /\ InitImage
    /\ InitCache
    /\ InitSnapshot(some_host)
    /\ skills_space \in SkillTrees
    /\ skill_groups = {}

\* setup_space_skill_frame: a group layout per rank and group of the tree
setup_space_skill_frame ==
    /\ skill_groups' = space_skill_groups(skills_space)
    /\ UNCHANGED skills_space
    /\ UNCHANGED cacheVars
    /\ UNCHANGED <<buildVars, settingsVars, widgetVars, snapshotVars, shellVars,
                   imageVars>>

NextSkills == setup_space_skill_frame

SpecSkills == InitSkillTrees /\ [][NextSkills]_vars

\* the three ids of the group's block
IdBlock(group) == group.id_offset..(group.id_offset + 2)

\* the groups of the panel in the adjacent pair starting at the even g
PairGroups(g) == {group \in skill_groups : group.group_id \in {g, g + 1}}

\* every rank of the tree has both groups of the pair starting at g
FullPair(g) == \A rank \in 1..Len(skills_space) : skills_space[rank] >= g + 2

(***************************************************************************)
(* C25: in the space skill panel the group at rank r and group index g     *)
(* has the id offset r*6 + (g mod 2)*3; within each adjacent pair of       *)
(* groups (g even, g+1) the blocks of three ids over all ranks are         *)
(* pairwise disjoint and together cover 0..6R-1 for R ranks; groups of     *)
(* equal parity in the same rank have the same offset.                     *)
(***************************************************************************)
C25_SkillIdOffsets ==
    /\ \A group \in skill_groups :
          group.id_offset = group.rank * 6 + (group.group_id % 2) * 3
    /\ \A g \in {n \in 0..MaxGroups : n % 2 = 0} :
          /\ \A g1, g2 \in PairGroups(g) :
                g1 # g2 => IdBlock(g1) \cap IdBlock(g2) = {}
          /\ skill_groups # {} /\ FullPair(g) =>
                UNION {IdBlock(group) : group \in PairGroups(g)}
                  = 0..(6 * Len(skills_space) - 1)
    /\ \A g1, g2 \in skill_groups :
          g1.rank = g2.rank /\ g1.group_id % 2 = g2.group_id % 2
            => g1.id_offset = g2.id_offset

\* a panel of two ranks with four groups each: the second and the fourth
\* group of the second rank both have the offset 9
C25_Witness ==
    /\ skills_space = <<4, 4>>
    /\ [rank |-> 1, group_id |-> 1, id_offset |-> 9] \in skill_groups
    /\ [rank |-> 1, group_id |-> 3, id_offset |-> 9] \in skill_groups
    /\ FullPair(0) /\ FullPair(2)

(***************************************************************************)
(* C28: for every ImageLabel constructed with any path and any aspect      *)
(* ratio, the default (0, 0) included, and any calls of set_image after    *)
(* it, whenever the image is not null when the label is painted the        *)
(* stored aspect width is not zero, and the height computation does not    *)
(* divide by zero.                                                         *)
(***************************************************************************)
C28_AspectWidthNonZero ==
    image_event.op = "paintEvent" /\ ~isNull(image_p) =>
        /\ image_w # 0
        /\ ~image_event.raised

\* a label constructed with an image and the default aspect ratio was
\* painted: the division by _w = 0 raised
C28_Witness ==
    /\ image_event = ImageCalled("paintEvent", TRUE)
    /\ ~isNull(image_p)
    /\ image_w = 0 /\ image_h = 0

====
